---------------------------- MODULE Spec2Model ----------------------------
(***************************************************************************)
(* A model of the natural-language-to-SQL core of the repository:          *)
(*   database/schema_analyzer.py         SchemaAnalyzer                    *)
(*   database/ai_query_generator.py      AIQueryGenerator                  *)
(*   database/advanced_query_builder.py  AdvancedQueryBuilder              *)
(* Texts are TLA+ strings; Len, SubSeq and \o act on them character by     *)
(* character, so substring tests, case conversion and trimming are         *)
(* computed the way the Python string methods compute them.                *)
(***************************************************************************)
EXTENDS Integers, Sequences, FiniteSets, TLC

VARIABLES
    \* ---- SchemaAnalyzer -------------------------------------------------
    schema,              \* what the metadata source (inspector) returns
    relationship_graph,  \* SchemaAnalyzer.relationship_graph: sequence of edges
    table_aliases,       \* SchemaAnalyzer.table_aliases: table -> set of aliases
    stage,               \* position inside SchemaAnalyzer._analyze_schema
    \* ---- AdvancedQueryBuilder -------------------------------------------
    query_cache,         \* AdvancedQueryBuilder.query_cache, in insertion order
    clock,               \* the value time.time() returned last
    hist,                \* per cache key: the counter stored by its last success
    \* ---- the request being served (locals of the running call) -----------
    pc,                  \* position inside process_natural_query / execute_generated_sql
    entry,               \* which public method the caller invoked
    natural_query,       \* argument of process_natural_query
    query_result,        \* what generate_sql returned
    sql_query,           \* argument of execute_generated_sql
    involved_tables,     \* argument of execute_generated_sql
    safe,                \* what _is_safe_query returned for sql_query
    probe_idx,           \* loop position of _identify_large_tables
    large_tables,        \* local of _identify_large_tables
    optimized_sql,       \* local of execute_generated_sql
    execution_result,    \* what execute_generated_sql returned
    result,              \* what the public method returned
    served,              \* number of calls started so far
    \* ---- the database session collaborator --------------------------------
    db_sent,             \* statements handed to session.execute during this call
    db_commits,          \* session.commit() calls during this call
    db_open,             \* sessions opened and not yet closed during this call
    \* ---- concurrent callers of the shared instance ------------------------
    threads,             \* per thread: the locals of its _cache_query call
    \* ---- AIQueryGenerator ------------------------------------------------
    gen                  \* the locals of the running generate_sql call

schemaVars == <<schema, relationship_graph, table_aliases, stage>>
cacheVars  == <<query_cache, clock, hist>>
reqVars    == <<pc, entry, natural_query, query_result, sql_query, involved_tables,
                safe, probe_idx, large_tables, optimized_sql, execution_result,
                result, served>>
dbVars     == <<db_sent, db_commits, db_open>>
vars       == <<schemaVars, cacheVars, reqVars, dbVars, threads, gen>>

None == "<None>"
\* the value of a result variable before the call has produced it
NoResult == [pending |-> TRUE]
Returned(r) == "success" \in DOMAIN r
\* the locals of generate_sql before it is called
NoGeneration ==
    [pc |-> "idle", natural_query |-> None, analysis |-> NoResult,
     relevant_tables |-> <<>>, joins |-> <<>>, columns |-> <<>>,
     where_conditions |-> <<>>, sql_query |-> None, alias |-> None, table |-> None]

-----------------------------------------------------------------------------
(* Python string methods, character by character.                          *)

ascii_lowercase == "abcdefghijklmnopqrstuvwxyz"
ascii_uppercase == "ABCDEFGHIJKLMNOPQRSTUVWXYZ"
whitespace == " \t\n\r"

char_at(s, i) == SubSeq(s, i, i)

\* str.find for a single character: 1-based position, 0 when absent
index_in(c, alphabet) ==
    IF \E i \in 1..Len(alphabet) : char_at(alphabet, i) = c
    THEN CHOOSE i \in 1..Len(alphabet) :
            /\ char_at(alphabet, i) = c
            /\ \A j \in 1..(i - 1) : char_at(alphabet, j) # c
    ELSE 0

\* the character-to-character tables of str.upper and str.lower
upper_of ==
    [c \in { char_at(ascii_lowercase, i) : i \in 1..Len(ascii_lowercase) } |->
        char_at(ascii_uppercase, index_in(c, ascii_lowercase))]
lower_of ==
    [c \in { char_at(ascii_uppercase, i) : i \in 1..Len(ascii_uppercase) } |->
        char_at(ascii_lowercase, index_in(c, ascii_uppercase))]

\* str.translate; the text is converted half by half
RECURSIVE translate(_, _)
translate(s, table) ==
    IF s = "" THEN ""
    ELSE IF Len(s) = 1 THEN (IF s \in DOMAIN table THEN table[s] ELSE s)
    ELSE translate(SubSeq(s, 1, Len(s) \div 2), table)
         \o translate(SubSeq(s, Len(s) \div 2 + 1, Len(s)), table)

upper(s) == translate(s, upper_of)
lower(s) == translate(s, lower_of)

is_space(c) == c \in { char_at(whitespace, i) : i \in 1..Len(whitespace) }

RECURSIVE lstrip(_)
lstrip(s) ==
    IF s # "" /\ is_space(char_at(s, 1)) THEN lstrip(SubSeq(s, 2, Len(s))) ELSE s

RECURSIVE rstrip(_)
rstrip(s) ==
    IF s # "" /\ is_space(char_at(s, Len(s)))
    THEN rstrip(SubSeq(s, 1, Len(s) - 1)) ELSE s

strip(s) == rstrip(lstrip(s))

\* sub in s
contains(s, sub) ==
    \E i \in 0..(Len(s) - Len(sub)) : SubSeq(s, i + 1, i + Len(sub)) = sub

startswith(s, prefix) ==
    Len(prefix) <= Len(s) /\ SubSeq(s, 1, Len(prefix)) = prefix

endswith(s, suffix) ==
    Len(suffix) <= Len(s) /\ SubSeq(s, Len(s) - Len(suffix) + 1, Len(s)) = suffix

-----------------------------------------------------------------------------
(* The metadata source: what inspector.get_table_names, get_columns and    *)
(* get_foreign_keys return.  A schema is the list of its tables.           *)

Col(n, t) == [name |-> n, type |-> t, primary_key |-> FALSE]
Pk(n) == [name |-> n, type |-> "INTEGER", primary_key |-> TRUE]
Fk(cols, ref, refcols) ==
    [constrained_columns |-> cols, referred_table |-> ref, referred_columns |-> refcols]
Tbl(n, cols, fks) == [name |-> n, columns |-> cols, foreign_keys |-> fks]

get_table_names(sch) == [i \in 1..Len(sch) |-> sch[i].name]

in_list(x, list) == \E i \in 1..Len(list) : list[i] = x

get_columns(sch, table) ==
    IF \E i \in 1..Len(sch) : sch[i].name = table
    THEN (CHOOSE t \in {sch[i] : i \in 1..Len(sch)} : t.name = table).columns
    ELSE <<>>

\* every (table, foreign key) in the order the two nested loops visit them
RECURSIVE table_fk_pairs(_)
table_fk_pairs(sch) ==
    IF sch = <<>> THEN <<>>
    ELSE [i \in 1..Len(Head(sch).foreign_keys) |->
              [table |-> Head(sch).name, fk |-> Head(sch).foreign_keys[i]]]
         \o table_fk_pairs(Tail(sch))

\* every (table, column) in the order the two nested loops visit them
RECURSIVE table_column_pairs(_)
table_column_pairs(sch) ==
    IF sch = <<>> THEN <<>>
    ELSE [i \in 1..Len(Head(sch).columns) |->
              [table |-> Head(sch).name, col |-> Head(sch).columns[i]]]
         \o table_column_pairs(Tail(sch))

-----------------------------------------------------------------------------
(* SchemaAnalyzer: the relationship graph (a networkx.Graph).  The graph is *)
(* undirected: an edge is identified by the set of its two ends, and its    *)
(* attributes are those of the last add_edge for that pair.  Edges are kept *)
(* in the order of their first insertion.                                   *)

EmptyGraph == [nodes |-> {}, edges |-> <<>>]

has_edge(g, u, v) == \E i \in 1..Len(g.edges) : g.edges[i].ends = {u, v}

add_node(g, n) == [g EXCEPT !.nodes = @ \cup {n}]

add_edge(g, u, v, kind, local, foreign) ==
    LET e == [ends |-> {u, v}, relationship_type |-> kind,
              local_columns |-> local, foreign_columns |-> foreign]
    IN [nodes |-> g.nodes \cup {u, v},
        edges |-> IF has_edge(g, u, v)
                  THEN [i \in 1..Len(g.edges) |->
                            IF g.edges[i].ends = {u, v} THEN e ELSE g.edges[i]]
                  ELSE Append(g.edges, e)]

get_edge_data(g, u, v) ==
    (CHOOSE e \in {g.edges[i] : i \in 1..Len(g.edges)} : e.ends = {u, v})

\* lines 36-38
RECURSIVE add_nodes(_, _)
add_nodes(g, names) ==
    IF names = <<>> THEN g ELSE add_nodes(add_node(g, Head(names)), Tail(names))

\* lines 41-51
RECURSIVE add_foreign_key_edges(_, _)
add_foreign_key_edges(g, pairs) ==
    IF pairs = <<>> THEN g
    ELSE LET p == Head(pairs) IN
         add_foreign_key_edges(
             add_edge(g, p.table, p.fk.referred_table, "foreign_key",
                      p.fk.constrained_columns, p.fk.referred_columns),
             Tail(pairs))

\* lines 69-74
potential_tables(potential_table) ==
    << potential_table,
       potential_table \o "s",
       potential_table \o "es",
       IF endswith(potential_table, "y")
       THEN SubSeq(potential_table, 1, Len(potential_table) - 1) \o "ies"
       ELSE None >>

usable_candidate(cand, tables) == cand # None /\ cand # "" /\ in_list(cand, tables)

\* a resolver that keeps looking after a hit: the last existing candidate wins
resolve_table_last_hit(col_name, tables) ==
    LET cands == potential_tables(SubSeq(col_name, 1, Len(col_name) - 3))
        hits == {i \in 1..Len(cands) : usable_candidate(cands[i], tables)}
    IN IF hits = {} THEN None
       ELSE cands[CHOOSE i \in hits : \A j \in hits : j <= i]

\* lines 76-86: the candidate at which the inner loop breaks, None if it never does
resolve_table(col_name, tables) ==
    LET cands == potential_tables(SubSeq(col_name, 1, Len(col_name) - 3))
        hits == {i \in 1..Len(cands) : usable_candidate(cands[i], tables)}
    IN IF hits = {} THEN None
       ELSE cands[CHOOSE i \in hits : \A j \in hits : i <= j]

\* an inference step that adds its edge without asking has_edge first
implicit_step_overwriting(g, table, col, tables) ==
    LET col_name == lower(col.name) IN
    IF ~endswith(col_name, "_id") THEN g
    ELSE LET pot_table == resolve_table(col_name, tables) IN
         IF pot_table = None THEN g
         ELSE add_edge(g, table, pot_table, "implicit", <<col_name>>, <<"id">>)

\* lines 62-86: the body of the loop over the columns of one table
implicit_step(g, table, col, tables) ==
    LET col_name == lower(col.name) IN
    IF ~endswith(col_name, "_id") THEN g
    ELSE LET pot_table == resolve_table(col_name, tables) IN
         IF pot_table = None THEN g
         ELSE IF has_edge(g, table, pot_table) THEN g
         ELSE add_edge(g, table, pot_table, "implicit", <<col_name>>, <<"id">>)

RECURSIVE detect_implicit(_, _, _)
detect_implicit(g, pairs, tables) ==
    IF pairs = <<>> THEN g
    ELSE detect_implicit(implicit_step(g, Head(pairs).table, Head(pairs).col, tables),
                         Tail(pairs), tables)

_detect_implicit_relationships(g, sch) ==
    detect_implicit(g, table_column_pairs(sch), get_table_names(sch))

_build_relationship_graph(sch) ==
    _detect_implicit_relationships(
        add_foreign_key_edges(add_nodes(EmptyGraph, get_table_names(sch)),
                              table_fk_pairs(sch)),
        sch)

-----------------------------------------------------------------------------
(* SchemaAnalyzer: table aliases.                                          *)

\* lines 97-101
clean_name_of(table) ==
    LET n0 == lower(table)
        n1 == IF startswith(n0, "tbl_") THEN SubSeq(n0, 5, Len(n0)) ELSE n0
    IN IF endswith(n1, "_table") THEN SubSeq(n1, 1, Len(n1) - 6) ELSE n1

is_separator(c) == c = "_" \/ is_space(c)

RECURSIVE skip_separators(_)
skip_separators(s) ==
    IF s # "" /\ is_separator(char_at(s, 1))
    THEN skip_separators(SubSeq(s, 2, Len(s))) ELSE s

\* re.split(r'[_\s]+', s), called with cur = "": a separator at either end
\* of the text yields an empty word there
RECURSIVE re_split(_, _)
re_split(s, cur) ==
    IF s = "" THEN <<cur>>
    ELSE IF is_separator(char_at(s, 1)) THEN <<cur>> \o re_split(skip_separators(s), "")
    ELSE re_split(SubSeq(s, 2, Len(s)), cur \o char_at(s, 1))

RECURSIVE join_initials(_)
join_initials(words) ==
    IF words = <<>> THEN "" ELSE char_at(Head(words), 1) \o join_initials(Tail(words))

business_aliases ==
    << [full_name |-> "customers",    aliases |-> {"cust", "customer", "client"}],
       [full_name |-> "products",     aliases |-> {"prod", "product", "item"}],
       [full_name |-> "orders",       aliases |-> {"ord", "order", "purchase"}],
       [full_name |-> "employees",    aliases |-> {"emp", "employee", "staff"}],
       [full_name |-> "transactions", aliases |-> {"trans", "transaction", "txn"}],
       [full_name |-> "invoices",     aliases |-> {"inv", "invoice", "bill"}],
       [full_name |-> "payments",     aliases |-> {"pay", "payment", "pmt"}],
       [full_name |-> "addresses",    aliases |-> {"addr", "address", "location"}] >>

\* word[0] of an empty word raises IndexError, and nothing catches it
aliases_raise(table) ==
    LET clean_name == clean_name_of(table)
        words == re_split(clean_name, "")
    IN Len(clean_name) > 4 /\ Len(words) > 1 /\ in_list("", words)

\* lines 94-128: the body of the loop over the tables, for one table
aliases_of(table) ==
    LET clean_name == clean_name_of(table)
        words == re_split(clean_name, "")
    IN  (IF Len(clean_name) > 4 THEN {SubSeq(clean_name, 1, 4)} ELSE {})
        \cup (IF Len(clean_name) > 4 /\ Len(words) > 1
              THEN {join_initials(words)} ELSE {})
        \cup UNION { business_aliases[i].aliases : i \in
                        { j \in 1..Len(business_aliases) :
                             \/ contains(clean_name, business_aliases[j].full_name)
                             \/ contains(business_aliases[j].full_name, clean_name) } }

\* the tables reached before the loop raises: all of them when it does not
aliased_prefix(names) ==
    IF \E i \in 1..Len(names) : aliases_raise(names[i])
    THEN (CHOOSE i \in 1..Len(names) :
              aliases_raise(names[i]) /\ \A j \in 1..(i - 1) : ~aliases_raise(names[j])) - 1
    ELSE Len(names)

_detect_table_aliases(sch) ==
    LET names == get_table_names(sch)
        done == {names[i] : i \in 1..aliased_prefix(names)}
    IN [t \in done |-> aliases_of(t)]

-----------------------------------------------------------------------------
(* AIQueryGenerator: the analysis of the request text.  Lists built by a   *)
(* loop are sequences in the order the loop appends; the regular           *)
(* expressions are matched from left to right without overlap, as          *)
(* re.findall and re.finditer do.  Confidences are Python floats: IEEE 754  *)
(* doubles, held here as the whole number of units of 2^-55 they amount to, *)
(* in four limbs of fifteen bits, the most significant first.  Every sum is *)
(* rounded to 53 significant bits, ties to even, as the hardware does.      *)

Limb == 32768

\* the spacing of the doubles around a value whose top limb is `top`
RECURSIVE ulp(_)
ulp(top) == IF top < 256 THEN 1 ELSE 2 * ulp(top \div 2)

\* the exact sum of two values
limb_sum(a, b) ==
    LET s4 == a[4] + b[4]
        s3 == a[3] + b[3] + s4 \div Limb
        s2 == a[2] + b[2] + s3 \div Limb
        s1 == a[1] + b[1] + s2 \div Limb
    IN <<s1, s2 % Limb, s3 % Limb, s4 % Limb>>

\* the double nearest to x units and `rest` tenths of a unit
round_half_even(x, rest) ==
    LET q == ulp(x[1])
        r == x[4] % q
        excess == 10 * r + rest
        down == <<x[1], x[2], x[3], x[4] - r>>
    IN IF excess > 5 * q \/ (excess = 5 * q /\ (x[4] \div q) % 2 = 1)
       THEN limb_sum(down, <<0, 0, 0, q>>) ELSE down

\* the float a decimal literal n / 10 denotes (0.5, 0.2, 0.9, ...)
float_of_tenths(n) ==
    LET t1 == n * 1024
        t2 == (t1 % 10) * Limb
        t3 == (t2 % 10) * Limb
        t4 == (t3 % 10) * Limb
    IN round_half_even(<<t1 \div 10, t2 \div 10, t3 \div 10, t4 \div 10>>, t4 % 10)

\* a sum that is capped at 1.0
float_add_capped(a, b) ==
    LET sum == round_half_even(limb_sum(a, b), 0)
    IN IF sum[1] >= 1024 THEN <<1024, 0, 0, 0>> ELSE sum

\* a + b on floats
float_add(a, b) == round_half_even(limb_sum(a, b), 0)


\* the list a loop builds by extending it with F(x) for each x of s in turn
concat_map(s, F(_)) ==
    LET f[i \in 0..Len(s)] == IF i = 0 THEN <<>> ELSE f[i - 1] \o F(s[i])
    IN f[Len(s)]

\* the first x of s for which P(x), None when there is none
first_where(s, P(_)) ==
    IF \E i \in 1..Len(s) : P(s[i])
    THEN s[CHOOSE i \in 1..Len(s) : P(s[i]) /\ \A j \in 1..(i - 1) : ~P(s[j])]
    ELSE None

\* str.join
join_str(sep, parts) ==
    LET f[i \in 0..Len(parts)] ==
            IF i = 0 THEN ""
            ELSE IF i = 1 THEN parts[1] ELSE f[i - 1] \o sep \o parts[i]
    IN f[Len(parts)]

is_digit(c) == c \in { char_at("0123456789", i) : i \in 1..10 }
is_word(c) == is_digit(c) \/ c = "_" \/ c \in DOMAIN upper_of \/ c \in DOMAIN lower_of

\* \d+ at position i: the length of the longest run of digits
digit_run(s, i) ==
    CHOOSE n \in 0..(Len(s) - i + 1) :
        /\ \A k \in i..(i + n - 1) : is_digit(char_at(s, k))
        /\ i + n > Len(s) \/ ~is_digit(char_at(s, i + n))

NoMatch == [len |-> 0, groups |-> <<>>]

\* re.findall / re.finditer: M(s, i) is the match that starts at position i
scan(s, M(_, _)) ==
    LET f[i \in 1..(Len(s) + 1)] ==
            IF i > Len(s) THEN <<>>
            ELSE IF M(s, i).len > 0 THEN <<M(s, i)>> \o f[i + M(s, i).len]
            ELSE f[i + 1]
    IN f[1]

\* line 188: '([^']*)'|"([^"]*)"
quoted_at(s, i) ==
    LET q == char_at(s, i)
        closing == { j \in (i + 1)..Len(s) : char_at(s, j) = q }
    IN IF (q = "'" \/ q = "\"") /\ closing # {}
       THEN LET j == CHOOSE j \in closing : \A k \in closing : j <= k
            IN [len |-> j - i + 1, groups |-> <<SubSeq(s, i + 1, j - 1)>>]
       ELSE NoMatch

\* line 198: \b\d+(?:\.\d+)?\b
number_at(s, i) ==
    LET n == digit_run(s, i)
        m == IF i + n <= Len(s) /\ char_at(s, i + n) = "."
             THEN digit_run(s, i + n + 1) ELSE 0
        boundary(p) == p > Len(s) \/ ~is_word(char_at(s, p))
        len == IF n = 0 \/ (i > 1 /\ is_word(char_at(s, i - 1))) THEN 0
               ELSE IF m > 0 /\ boundary(i + n + 1 + m) THEN n + 1 + m
               ELSE IF boundary(i + n) THEN n
               ELSE 0
    IN IF len = 0 THEN NoMatch
       ELSE [len |-> len, groups |-> <<SubSeq(s, i, i + len - 1)>>]

\* keyword lists in which "with" is no keyword of the intent join
query_patterns_without_with ==
    << <<"count", "how many">>, <<"count", "count">>, <<"count", "total">>,
       <<"count", "number of">>,
       <<"list", "show">>, <<"list", "list">>, <<"list", "get">>,
       <<"list", "display">>, <<"list", "find">>,
       <<"aggregate", "sum">>, <<"aggregate", "average">>, <<"aggregate", "max">>,
       <<"aggregate", "min">>, <<"aggregate", "total">>,
       <<"group_by", "by">>, <<"group_by", "group">>, <<"group_by", "each">>,
       <<"group_by", "per">>,
       <<"join", "and">>, <<"join", "related">>, <<"join", "associated">> >>

\* lines 33-54, in the iteration order of the dictionary: (intent, keyword)
query_patterns ==
    << <<"count", "how many">>, <<"count", "count">>, <<"count", "total">>,
       <<"count", "number of">>,
       <<"list", "show">>, <<"list", "list">>, <<"list", "get">>,
       <<"list", "display">>, <<"list", "find">>,
       <<"aggregate", "sum">>, <<"aggregate", "average">>, <<"aggregate", "max">>,
       <<"aggregate", "min">>, <<"aggregate", "total">>,
       <<"group_by", "by">>, <<"group_by", "group">>, <<"group_by", "each">>,
       <<"group_by", "per">>,
       <<"join", "with">>, <<"join", "and">>, <<"join", "related">>,
       <<"join", "associated">> >>

\* entities that all carry the confidence 1.0
Entity_certain(type, value, table, original, confidence) ==
    [type |-> type, value |-> value, table |-> table, original |-> original,
     confidence |-> float_of_tenths(10)]

\* the confidence of an entity is a literal, given here in tenths
Entity(type, value, table, original, confidence) ==
    [type |-> type, value |-> value, table |-> table, original |-> original,
     confidence |-> float_of_tenths(confidence)]

\* lines 146-206
_extract_entities(sch, aliases, query) ==
    LET query_lower == lower(query)
        tables == get_table_names(sch)
        \* the stored alias list is list(set(...)): some order of the set
        alias_list(t) ==
            LET f[S \in SUBSET aliases[t]] ==
                    IF S = {} THEN <<>>
                    ELSE LET a == CHOOSE a \in S : TRUE IN <<a>> \o f[S \ {a}]
            IN f[aliases[t]]
        table_entities(t) ==
            (IF contains(query_lower, lower(t))
             THEN <<Entity("table", t, None, t, 9)>> ELSE <<>>)
            \o (IF t \in DOMAIN aliases
                THEN concat_map(alias_list(t),
                        LAMBDA a : IF contains(query_lower, lower(a))
                                   THEN <<Entity("table", t, None, a, 8)>>
                                   ELSE <<>>)
                ELSE <<>>)
        column_entities(p) ==
            IF contains(query_lower, lower(p.col.name))
            THEN <<Entity("column", p.col.name, p.table, None, 7)>> ELSE <<>>
    IN concat_map(tables, table_entities)
       \o concat_map(table_column_pairs(sch), column_entities)
       \o concat_map(scan(query, quoted_at),
                     LAMBDA m : <<Entity("value", m.groups[1], None, None, 9)>>)
       \o concat_map(scan(query, number_at),
                     LAMBDA m : <<Entity("number", m.groups[1], None, None, 8)>>)

\* an analysis in which the aggregation check is made after the grouping check
_analyze_natural_query_aggregate_last(sch, aliases, query) ==
    LET query_lower == lower(query)
        matched == SelectSeq(query_patterns, LAMBDA p : contains(query_lower, p[2]))
        agg_functions == <<"count", "sum", "avg", "average", "max", "min">>
        aggs == SelectSeq(agg_functions, LAMBDA f : contains(query_lower, f))
        confidence[k \in 0..Len(matched)] ==
            IF k = 0 THEN float_of_tenths(5)
            ELSE float_add(confidence[k - 1], float_of_tenths(2))
        by_pattern == IF matched = <<>> THEN "list" ELSE matched[Len(matched)][1]
        by_group == IF \E w \in {"by", "group", "each", "per"} : contains(query_lower, w)
                    THEN "group_by" ELSE by_pattern
    IN [original_query |-> query,
        intent |-> IF \E i \in 1..Len(aggs) : aggs[i] # "count"
                   THEN "aggregate" ELSE by_group,
        entities |-> _extract_entities(sch, aliases, query),
        keywords |-> [i \in 1..Len(matched) |-> matched[i][2]],
        confidence |-> confidence[Len(matched)],
        aggregation |-> IF aggs = <<>> THEN None ELSE aggs[Len(aggs)]]

\* lines 110-144
_analyze_natural_query(sch, aliases, query) ==
    LET query_lower == lower(query)
        matched == SelectSeq(query_patterns, LAMBDA p : contains(query_lower, p[2]))
        agg_functions == <<"count", "sum", "avg", "average", "max", "min">>
        aggs == SelectSeq(agg_functions, LAMBDA f : contains(query_lower, f))
        by_pattern == IF matched = <<>> THEN "list" ELSE matched[Len(matched)][1]
        confidence[k \in 0..Len(matched)] ==
            IF k = 0 THEN float_of_tenths(5)
            ELSE float_add(confidence[k - 1], float_of_tenths(2))
        by_aggregation == IF \E i \in 1..Len(aggs) : aggs[i] # "count"
                          THEN "aggregate" ELSE by_pattern
    IN [original_query |-> query,
        intent |-> IF \E w \in {"by", "group", "each", "per"} : contains(query_lower, w)
                   THEN "group_by" ELSE by_aggregation,
        entities |-> _extract_entities(sch, aliases, query),
        keywords |-> [i \in 1..Len(matched) |-> matched[i][2]],
        confidence |-> confidence[Len(matched)],
        aggregation |-> IF aggs = <<>> THEN None ELSE aggs[Len(aggs)]]

-----------------------------------------------------------------------------
(* SchemaAnalyzer: the lookups the generator uses.                         *)

\* a lookup that tries the substring level before the two exact levels
find_table_by_alias_partial_first(sch, aliases, alias) ==
    LET a == strip(lower(alias))
        tables == get_table_names(sch)
        direct == first_where(tables, LAMBDA t : lower(t) = a)
        by_alias == first_where(tables,
                        LAMBDA t : t \in DOMAIN aliases
                                   /\ a \in { lower(x) : x \in aliases[t] })
        partial == first_where(tables,
                        LAMBDA t : contains(lower(t), a) \/ contains(a, lower(t)))
    IN IF partial # None THEN partial
       ELSE IF direct # None THEN direct
       ELSE by_alias

\* schema_analyzer.py lines 179-199
find_table_by_alias(sch, aliases, alias) ==
    LET a == strip(lower(alias))
        tables == get_table_names(sch)
        direct == first_where(tables, LAMBDA t : lower(t) = a)
        by_alias == first_where(tables,
                        LAMBDA t : t \in DOMAIN aliases
                                   /\ a \in { lower(x) : x \in aliases[t] })
        partial == first_where(tables,
                        LAMBDA t : contains(lower(t), a) \/ contains(a, lower(t)))
    IN IF direct # None THEN direct
       ELSE IF by_alias # None THEN by_alias
       ELSE partial

\* networkx Graph.neighbors: in the order the edges at u were first added
neighbors(g, u) ==
    concat_map(g.edges,
        LAMBDA e : IF u \notin e.ends THEN <<>>
                   ELSE IF e.ends = {u} THEN <<u>>
                   ELSE <<CHOOSE v \in e.ends : v # u>>)

\* networkx.shortest_path without weights: a path with the fewest edges,
\* <<>> when there is none (NetworkXNoPath)
shortest_path(g, source, target) ==
    LET N == Cardinality(g.nodes)
        adjacent(u, v) == has_edge(g, u, v)
        within[k \in 0..N] ==
            IF k = 0 THEN {source}
            ELSE within[k - 1]
                 \cup { v \in g.nodes : \E u \in within[k - 1] : adjacent(u, v) }
    IN IF target \notin within[N] THEN <<>>
       ELSE LET d == CHOOSE k \in 0..N :
                        target \in within[k] /\ \A j \in 0..(k - 1) : target \notin within[j]
            IN CHOOSE path \in [1..(d + 1) -> g.nodes] :
                    /\ path[1] = source
                    /\ path[d + 1] = target
                    /\ \A i \in 1..d : adjacent(path[i], path[i + 1])

\* schema_analyzer.py lines 232-244
_get_path_join_info(g, path) ==
    concat_map([i \in 1..(Len(path) - 1) |-> i],
        LAMBDA i : IF has_edge(g, path[i], path[i + 1])
                   THEN <<[from_table |-> path[i], to_table |-> path[i + 1],
                           join_condition |-> get_edge_data(g, path[i], path[i + 1])]>>
                   ELSE <<>>)

\* a lookup that reports direct relationships only
find_relationships_direct_only(g, table1, table2) ==
    IF has_edge(g, table1, table2)
    THEN <<[type |-> "direct", path |-> <<table1, table2>>,
            join_info |-> <<[from_table |-> table1, to_table |-> table2,
                             join_condition |-> get_edge_data(g, table1, table2)]>>]>>
    ELSE <<>>

\* schema_analyzer.py lines 201-230; the join_info of a direct relationship
\* is the edge's attributes, held here as the one step of its path
find_relationships(g, table1, table2) ==
    LET path == IF {table1, table2} \subseteq g.nodes
                THEN shortest_path(g, table1, table2) ELSE <<>>
    IN (IF has_edge(g, table1, table2)
        THEN <<[type |-> "direct", path |-> <<table1, table2>>,
                join_info |-> <<[from_table |-> table1, to_table |-> table2,
                                 join_condition |-> get_edge_data(g, table1, table2)]>>]>>
        ELSE <<>>)
       \o (IF Len(path) > 2
           THEN <<[type |-> "indirect", path |-> path,
                   join_info |-> _get_path_join_info(g, path)]>>
           ELSE <<>>)

\* schema_analyzer.py lines 268-292
suggest_columns_for_query(sch, tables, intent) ==
    LET relevant_patterns ==
            CASE intent = "count" -> <<"id">>
              [] intent = "list" -> <<"id", "name", "title", "description">>
              [] intent = "search" -> <<"name", "title", "description", "email">>
              [] intent = "financial" -> <<"amount", "price", "cost", "total", "value">>
              [] intent = "temporal" -> <<"created_at", "updated_at", "date", "timestamp">>
              [] intent = "status" -> <<"status", "state", "active", "enabled">>
              [] OTHER -> <<"id", "name">>
    IN concat_map(tables, LAMBDA table :
         concat_map(get_columns(sch, table), LAMBDA col :
           concat_map(relevant_patterns, LAMBDA pattern :
             IF contains(lower(col.name), pattern)
             THEN <<table \o "." \o col.name>> ELSE <<>>)))

-----------------------------------------------------------------------------
(* AIQueryGenerator: tables, joins, columns, conditions and the statement. *)

\* lines 236-244, in the iteration order of the dictionary
domain_mappings ==
    << [keyword |-> "customer", tables |-> <<"customers", "users", "clients">>],
       [keyword |-> "order", tables |-> <<"orders", "purchases", "transactions">>],
       [keyword |-> "product", tables |-> <<"products", "items", "inventory">>],
       [keyword |-> "employee", tables |-> <<"employees", "staff", "users">>],
       [keyword |-> "sale", tables |-> <<"sales", "orders", "transactions">>],
       [keyword |-> "payment", tables |-> <<"payments", "transactions", "invoices">>],
       [keyword |-> "invoice", tables |-> <<"invoices", "bills", "payments">>] >>

\* what _semantic_table_matching can return (lines 263-276): no table when
\* the sentence model is missing or fails, else at most two distinct tables
semantic_matches(sch) ==
    LET tables == { sch[i].name : i \in 1..Len(sch) }
    IN {<<>>} \cup { <<t>> : t \in tables }
       \cup { p \in tables \X tables : p[1] # p[2] }

\* lines 230-261
_infer_tables_from_context(sch, aliases, analysis, semantic) ==
    LET query_lower == lower(analysis.original_query)
        found(d) == SelectSeq(d.tables,
                        LAMBDA pot : find_table_by_alias(sch, aliases, pot) # None)
        inferred == concat_map(domain_mappings,
                        LAMBDA d : IF contains(query_lower, d.keyword) /\ found(d) # <<>>
                                   THEN <<find_table_by_alias(sch, aliases, found(d)[1])>>
                                   ELSE <<>>)
        chosen == IF inferred = <<>> THEN semantic ELSE inferred
    IN SubSeq(chosen, 1, IF Len(chosen) < 3 THEN Len(chosen) ELSE 3)

\* lines 208-228: every order list(set(relevant_tables)) can have
_identify_tables(sch, g, aliases, analysis, semantic) ==
    LET mentioned == concat_map(analysis.entities,
                        LAMBDA e : IF e.type = "table" THEN <<e.value>> ELSE <<>>)
        or_inferred(tables) ==
            IF tables = <<>>
            THEN _infer_tables_from_context(sch, aliases, analysis, semantic)
            ELSE tables
        first_two(direct) == SubSeq(direct, 1, IF Len(direct) < 2 THEN Len(direct) ELSE 2)
        with_related(relevant) ==
            IF /\ Len(relevant) = 1
               /\ \E w \in {"with", "and", "related"} :
                      contains(lower(analysis.original_query), w)
            THEN relevant \o first_two(neighbors(g, relevant[1]))
            ELSE relevant
        as_set(relevant) == { relevant[i] : i \in 1..Len(relevant) }
        orders(distinct) ==
            { order \in [1..Cardinality(distinct) -> distinct] :
                \A i, j \in 1..Cardinality(distinct) : order[i] = order[j] => i = j }
    IN orders(as_set(with_related(or_inferred(mentioned))))

\* a plan whose steps are inner joins
_build_joins_inner(g, tables) ==
    IF Len(tables) <= 1 THEN <<>>
    ELSE LET main_table == tables[1]
             clause(to_table, from_table, condition) ==
                 "INNER JOIN " \o to_table \o " ON " \o from_table \o "."
                 \o condition.local_columns[1] \o " = " \o to_table \o "."
                 \o condition.foreign_columns[1]
             joins_to(table) ==
                 LET relationships == find_relationships(g, main_table, table)
                 IN IF relationships = <<>> THEN <<>>
                    ELSE concat_map(relationships[1].join_info,
                            LAMBDA step : <<clause(step.to_table, step.from_table,
                                                   step.join_condition)>>)
         IN concat_map(Tail(tables), joins_to)

\* lines 278-309
_build_joins(g, tables) ==
    IF Len(tables) <= 1 THEN <<>>
    ELSE LET main_table == tables[1]
             clause(to_table, from_table, condition) ==
                 "LEFT JOIN " \o to_table \o " ON " \o from_table \o "."
                 \o condition.local_columns[1] \o " = " \o to_table \o "."
                 \o condition.foreign_columns[1]
             joins_to(table) ==
                 LET relationships == find_relationships(g, main_table, table)
                 IN IF relationships = <<>> THEN <<>>
                    ELSE IF relationships[1].type = "direct"
                    THEN <<clause(table, main_table,
                                  relationships[1].join_info[1].join_condition)>>
                    ELSE concat_map(relationships[1].join_info,
                            LAMBDA step : <<clause(step.to_table, step.from_table,
                                                   step.join_condition)>>)
         IN concat_map(Tail(tables), joins_to)

\* lines 379-390
_find_numeric_columns(sch, tables) ==
    concat_map(tables, LAMBDA table :
      concat_map(get_columns(sch, table), LAMBDA col :
        IF upper(col.type) \in {"INTEGER", "FLOAT", "DECIMAL", "NUMERIC", "REAL"}
        THEN <<table \o "." \o col.name>> ELSE <<>>))

\* lines 311-336
_extract_columns(sch, analysis, tables) ==
    LET mentioned == concat_map(analysis.entities,
                        LAMBDA e : IF e.type = "column"
                                   THEN <<e.table \o "." \o e.value>> ELSE <<>>)
        start == IF mentioned = <<>>
                 THEN suggest_columns_for_query(sch, tables, analysis.intent)
                 ELSE mentioned
        is_key(col) == col.primary_key \/ lower(col.name) \in {"id", "pk"}
        with_keys[i \in 0..Len(tables)] ==
            IF i = 0 THEN start
            ELSE LET keys == SelectSeq(get_columns(sch, tables[i]), is_key)
                     pk_col == tables[i] \o "." \o keys[1].name
                 IN IF keys # <<>> /\ ~in_list(pk_col, with_keys[i - 1])
                    THEN <<pk_col>> \o with_keys[i - 1]
                    ELSE with_keys[i - 1]
        columns == with_keys[Len(tables)]
    IN SubSeq(columns, 1, IF Len(columns) < 10 THEN Len(columns) ELSE 10)

\* lines 364-369: the comparison phrases and what each adds to a condition
comparison_patterns ==
    << [prefixes |-> <<"greater than ">>, operator |-> " > ", infix |-> None],
       [prefixes |-> <<"less than ">>, operator |-> " < ", infix |-> None],
       [prefixes |-> <<"equals ", "equal ">>, operator |-> " = ", infix |-> None],
       [prefixes |-> <<"between ">>, operator |-> " BETWEEN ", infix |-> " and "] >>

\* the match of one comparison phrase that starts at position i
comparison_at(p, s, i) ==
    LET literal(x, at) == SubSeq(s, at, at + Len(x) - 1) = x
        usable == SelectSeq(p.prefixes,
                     LAMBDA x : i + Len(x) - 1 <= Len(s) /\ literal(x, i)
                                /\ digit_run(s, i + Len(x)) > 0)
        first_at == i + Len(usable[1])
        n == digit_run(s, first_at)
        second_at == first_at + n + Len(p.infix)
    IN IF usable = <<>> THEN NoMatch
       ELSE IF p.infix = None
       THEN [len |-> first_at + n - i, groups |-> <<SubSeq(s, first_at, first_at + n - 1)>>]
       ELSE IF /\ second_at <= Len(s)
               /\ literal(p.infix, first_at + n)
               /\ digit_run(s, second_at) > 0
       THEN [len |-> second_at + digit_run(s, second_at) - i,
             groups |-> <<SubSeq(s, first_at, first_at + n - 1),
                          SubSeq(s, second_at, second_at + digit_run(s, second_at) - 1)>>]
       ELSE NoMatch

\* lines 338-377
_extract_conditions(sch, analysis, tables) ==
    LET value_entities == SelectSeq(analysis.entities,
                              LAMBDA e : e.type \in {"value", "number"})
        column_entities == SelectSeq(analysis.entities, LAMBDA e : e.type = "column")
        numeric_columns == _find_numeric_columns(sch, tables)
        formatted(p, m) == IF p.infix = None THEN p.operator \o m.groups[1]
                           ELSE p.operator \o m.groups[1] \o " AND " \o m.groups[2]
    IN concat_map(value_entities, LAMBDA v :
         concat_map(column_entities, LAMBDA c :
           IF v.type = "number"
           THEN <<c.table \o "." \o c.value \o " = " \o v.value>>
           ELSE <<c.table \o "." \o c.value \o " LIKE '%" \o v.value \o "%'">>))
       \o concat_map(comparison_patterns, LAMBDA p :
            concat_map(scan(lower(analysis.original_query),
                            LAMBDA s, i : comparison_at(p, s, i)),
              LAMBDA m : IF numeric_columns # <<>>
                         THEN <<numeric_columns[1] \o formatted(p, m)>> ELSE <<>>))

\* a synthesizer that projects the extracted columns for the intent count too
_construct_sql_projecting(sch, intent, tables, columns, joins, conditions, analysis) ==
    IF tables = <<>> THEN "SELECT 1"
    ELSE LET select_clause ==
                 IF columns # <<>> THEN "SELECT " \o join_str(", ", columns)
                 ELSE "SELECT " \o tables[1] \o ".*"
             from_clause == "FROM " \o tables[1]
             join_clause == IF joins # <<>> THEN " " \o join_str(" ", joins) ELSE ""
             where_clause == IF conditions # <<>>
                             THEN " WHERE " \o join_str(" AND ", conditions) ELSE ""
             limit_clause ==
                 IF intent = "list" /\ ~contains(lower(analysis.original_query), "all")
                 THEN " LIMIT 10" ELSE ""
         IN strip(select_clause \o " " \o from_clause \o join_clause
                  \o where_clause \o limit_clause)

\* lines 392-433
_construct_sql(sch, intent, tables, columns, joins, conditions, analysis) ==
    IF tables = <<>> THEN "SELECT 1"
    ELSE LET numeric_cols == _find_numeric_columns(sch, tables)
             select_clause ==
                 IF intent = "count" THEN "SELECT COUNT(*)"
                 ELSE IF intent = "aggregate" /\ analysis.aggregation # None
                 THEN IF numeric_cols # <<>>
                      THEN "SELECT " \o upper(analysis.aggregation)
                           \o "(" \o numeric_cols[1] \o ")"
                      ELSE "SELECT COUNT(*)"
                 ELSE IF columns # <<>> THEN "SELECT " \o join_str(", ", columns)
                 ELSE "SELECT " \o tables[1] \o ".*"
             from_clause == "FROM " \o tables[1]
             join_clause == IF joins # <<>> THEN " " \o join_str(" ", joins) ELSE ""
             where_clause == IF conditions # <<>>
                             THEN " WHERE " \o join_str(" AND ", conditions) ELSE ""
             limit_clause ==
                 IF intent = "list" /\ ~contains(lower(analysis.original_query), "all")
                 THEN " LIMIT 10" ELSE ""
         IN strip(select_clause \o " " \o from_clause \o join_clause
                  \o where_clause \o limit_clause)

\* lines 68-108, for the order `tables` that _identify_tables returned.
\* inspector.get_columns raises for a table the graph knows only as the
\* target of a foreign key; generate_sql then returns no statement
generate_sql(sch, g, aliases, query, tables) ==
    LET analysis == _analyze_natural_query(sch, aliases, query)
        unknown == SelectSeq(tables, LAMBDA t : ~in_list(t, get_table_names(sch)))
    IN IF unknown # <<>>
       THEN [sql |-> None, error |-> unknown[1], tables |-> <<>>,
             analysis |-> [intent |-> "unknown"], confidence |-> float_of_tenths(0)]
       ELSE [sql |-> _construct_sql(sch, analysis.intent, tables,
                                    _extract_columns(sch, analysis, tables),
                                    _build_joins(g, tables),
                                    _extract_conditions(sch, analysis, tables),
                                    analysis),
             error |-> None, tables |-> tables,
             analysis |-> analysis, confidence |-> analysis.confidence]

-----------------------------------------------------------------------------
(* AdvancedQueryBuilder: the safety gate and the row-limiting step.        *)

dangerous_keywords ==
    << "DROP", "DELETE", "UPDATE", "INSERT", "ALTER",
       "CREATE", "TRUNCATE", "GRANT", "REVOKE" >>

\* a gate that tests the SELECT prefix on the untrimmed text
_is_safe_query_unstripped(sql) ==
    LET sql_upper == upper(sql) IN
    /\ \A i \in 1..Len(dangerous_keywords) : ~contains(sql_upper, dangerous_keywords[i])
    /\ startswith(sql_upper, "SELECT")

\* a gate that only tests the SELECT prefix
_is_safe_query_prefix_only(sql) == startswith(strip(upper(sql)), "SELECT")

\* a gate that only tests the dangerous keywords
_is_safe_query_keywords_only(sql) ==
    \A i \in 1..Len(dangerous_keywords) : ~contains(upper(sql), dangerous_keywords[i])

_is_safe_query(sql) ==
    LET sql_upper == strip(upper(sql)) IN
    IF \E i \in 1..Len(dangerous_keywords) : contains(sql_upper, dangerous_keywords[i])
    THEN FALSE
    ELSE IF ~startswith(sql_upper, "SELECT") THEN FALSE
    ELSE TRUE

LargeTableRows == 10000

\* a size check that is skipped for a LIMIT only
needs_size_check_limit_only(sql) == ~contains(upper(sql), "LIMIT")

\* the condition under which _optimize_query asks for the table sizes
needs_size_check(sql) ==
    ~contains(upper(sql), "LIMIT") /\ ~contains(upper(sql), "COUNT(")

count_query(table) == "SELECT COUNT(*) FROM " \o table

_add_index_hints(sql, tables) == sql


-----------------------------------------------------------------------------
(* AdvancedQueryBuilder: the query cache.  The dict is a sequence of its    *)
(* entries in insertion order (the order in which min() visits the keys);   *)
(* assigning to a key already present keeps its position.                   *)

CacheCapacity == 100

cache_keys(cache) == { cache[i].key : i \in 1..Len(cache) }

cache_get(cache, key) ==
    CHOOSE e \in { cache[i] : i \in 1..Len(cache) } : e.key = key

\* line 249
cache_key_of(text) == strip(lower(text))

\* a counter that is written as 1 on every success
next_success_count_reset(cache, key) == 1

\* line 253: self.query_cache.get(cache_key, {}).get('success_count', 0) + 1
next_success_count(cache, key) ==
    (IF key \in cache_keys(cache) THEN cache_get(cache, key).success_count ELSE 0) + 1

\* lines 250-254
cache_store(cache, key, sql, now) ==
    LET e == [key |-> key, sql |-> sql, timestamp |-> now,
              success_count |-> next_success_count(cache, key)]
    IN IF key \in cache_keys(cache)
       THEN [i \in 1..Len(cache) |-> IF cache[i].key = key THEN e ELSE cache[i]]
       ELSE Append(cache, e)

\* an eviction that removes the entry written last
oldest_key_newest(cache) ==
    cache[CHOOSE i \in 1..Len(cache) :
            /\ \A j \in 1..Len(cache) : cache[j].timestamp <= cache[i].timestamp
            /\ \A j \in (i + 1)..Len(cache) : cache[j].timestamp < cache[i].timestamp].key

\* lines 258-259: min() returns the first key, in iteration order, whose
\* timestamp is minimal
oldest_key(cache) ==
    cache[CHOOSE i \in 1..Len(cache) :
            /\ \A j \in 1..Len(cache) : cache[i].timestamp <= cache[j].timestamp
            /\ \A j \in 1..(i - 1) : cache[j].timestamp > cache[i].timestamp].key

\* line 260, for a key that is present
cache_delete(cache, key) == SelectSeq(cache, LAMBDA e : e.key # key)

\* lines 247-260, run without interruption
_cache_query(cache, text, sql, now) ==
    LET stored == cache_store(cache, cache_key_of(text), sql, now)
    IN IF Len(stored) > CacheCapacity
       THEN cache_delete(stored, oldest_key(stored))
       ELSE stored

\* the record kept of the successes: per key the counter stored by its last
\* success, and what the last _cache_query call saw and wrote
NoWrite == [input |-> None, key |-> None, present |-> FALSE, previous |-> 0,
            count |-> 0, size_before |-> 0]

history_after(h, cache, written, text) ==
    LET key == cache_key_of(text)
        count == IF key \in cache_keys(written)
                 THEN cache_get(written, key).success_count ELSE 0
    IN [counts |-> [k \in DOMAIN h.counts \cup {key} |->
                        IF k = key THEN count ELSE h.counts[k]],
        last |-> [input |-> text, key |-> key,
                  present |-> key \in cache_keys(cache),
                  previous |-> IF key \in DOMAIN h.counts THEN h.counts[key] ELSE 0,
                  count |-> count,
                  size_before |-> Len(cache)],
        writes |-> h.writes + 1]

-----------------------------------------------------------------------------
(* Bounds of the model and the inputs the callers are drawn from.          *)

MaxCalls == 2      \* calls of the public methods served one after the other
MaxRows  == 1      \* rows a successful SELECT returns, at most
MaxRequests == 2   \* process_natural_query calls served one after the other

\* statements a caller hands to execute_generated_sql directly
SqlHeads == { "SELECT", "select", " Select", "\n\tSELECT", "WITH t AS (SELECT 1) SELECT",
              "EXPLAIN SELECT", "", "SHOW" }
SqlTails == { " * FROM users", " * FROM users; DROP TABLE users", " * from users; drop table users",
              " COUNT(*) FROM users ", " id FROM users limit 5", " created_at FROM users",
              " * FROM updates", " 1; Delete from users", " 1; INSERT INTO users VALUES (1)",
              " 1; alter table users", " 1; TRUNCATE users", " 1; grant all", " 1; REVOKE all",
              " * FROM t WHERE c = 'dro p'" }
SqlInputs == { h \o t : h \in SqlHeads, t \in SqlTails }
            \cup { "DROP TABLE users", "UPDATE users SET a = 1", "DELETE FROM users" }
TableListInputs == { <<>>, <<"users">>, <<"users", "updates">> }

\* what a size probe does: raise, or return the row count
ProbeOutcomes == { [ok |-> FALSE, count |-> 0] }
    \cup { [ok |-> TRUE, count |-> n] : n \in {LargeTableRows, LargeTableRows + 1} }
\* what the main statement does: raise, or return this many rows
ExecOutcomes == { [ok |-> FALSE, rows |-> 0] } \cup { [ok |-> TRUE, rows |-> n] : n \in 0..MaxRows }

\* the schemas the shared instance is constructed over, each with the texts
\* its callers hand to process_natural_query: a shop with a declared foreign
\* key and a table without key column; a shop related by column names only;
\* a table whose foreign key leaves the schema
PipelineInputs ==
    { [schema |->
         << Tbl("customers", <<Pk("id"), Col("name", "VARCHAR"), Col("email", "VARCHAR")>>, <<>>),
            Tbl("orders", <<Pk("id"), Col("customer_id", "INTEGER"), Col("total", "DECIMAL")>>,
                <<Fk(<<"customer_id">>, "customers", <<"id">>)>>),
            Tbl("dropbox", <<Col("path", "VARCHAR")>>, <<>>) >>,
       queries |-> { "how many customers are there", "show all orders and dropbox",
                     "list customers", " List Customers " }],
      [schema |->
         << Tbl("customers", <<Pk("id"), Col("name", "VARCHAR")>>, <<>>),
            Tbl("orders", <<Pk("id"), Col("customer_id", "INTEGER")>>, <<>>),
            Tbl("order_items", <<Col("order_id", "INTEGER"), Col("product_id", "INTEGER")>>, <<>>),
            Tbl("products", <<Pk("id"), Col("title", "VARCHAR"), Col("price", "FLOAT")>>, <<>>) >>,
       queries |-> { "show customers with products", "total sales",
                     "find customers name 'drop'" }],
      [schema |->
         << Tbl("logs", <<Pk("id"), Col("account_id", "INTEGER")>>,
                <<Fk(<<"account_id">>, "accounts", <<"id">>)>>) >>,
       queries |-> { "show logs with accounts", "hello" }] }

NaturalQueries(sch) == (CHOOSE input \in PipelineInputs : input.schema = sch).queries

UnsafeError == "Query contains potentially unsafe operations"
ExecutionError == "ExecutionError"

-----------------------------------------------------------------------------
(* AdvancedQueryBuilder.execute_generated_sql, step by step.               *)

ResetCall ==
    /\ safe' = "unchecked"
    /\ probe_idx' = 0
    /\ large_tables' = <<>>
    /\ optimized_sql' = None
    /\ execution_result' = NoResult
    /\ result' = NoResult
    /\ db_sent' = <<>>
    /\ db_commits' = 0
    /\ db_open' = 0
    /\ served' = served + 1

\* a caller invokes execute_generated_sql(sql, tables) on the instance
CallExecuteGeneratedSql ==
    /\ pc = "idle"
    /\ served < MaxCalls
    /\ \E sql \in SqlInputs, tables \in TableListInputs :
        /\ sql_query' = sql
        /\ involved_tables' = tables
    /\ entry' = "execute_generated_sql"
    /\ natural_query' = None
    /\ query_result' = NoResult
    /\ pc' = "gate"
    /\ ResetCall
    /\ UNCHANGED <<schemaVars, cacheVars, threads, gen>>

\* a gate whose rejection is recorded but does not return
SafetyGateFallsThrough ==
    /\ pc = "gate"
    /\ safe' = IF _is_safe_query(sql_query) THEN "accepted" ELSE "rejected"
    /\ pc' = "optimize"
    /\ UNCHANGED execution_result
    /\ UNCHANGED <<schemaVars, cacheVars, dbVars, threads, gen, entry, natural_query,
                   query_result, sql_query, involved_tables, probe_idx, large_tables,
                   optimized_sql, result, served>>

\* lines 66-70: the safety check, first statement of the method
SafetyGate ==
    /\ pc = "gate"
    /\ safe' = IF _is_safe_query(sql_query) THEN "accepted" ELSE "rejected"
    /\ IF safe' = "accepted"
       THEN /\ pc' = "optimize"
            /\ UNCHANGED execution_result
       ELSE /\ pc' = "executed"
            /\ execution_result' = [success |-> FALSE, error |-> UnsafeError]
    /\ UNCHANGED <<schemaVars, cacheVars, dbVars, threads, gen, entry, natural_query,
                   query_result, sql_query, involved_tables, probe_idx, large_tables,
                   optimized_sql, result, served>>

\* lines 132-137: _optimize_query decides whether the table sizes are needed
OptimizeQuery ==
    /\ pc = "optimize"
    /\ IF needs_size_check(sql_query)
       THEN /\ pc' = "probe"
            /\ probe_idx' = 1
            /\ large_tables' = <<>>
            /\ UNCHANGED optimized_sql
       ELSE /\ pc' = "execute"
            /\ optimized_sql' = _add_index_hints(sql_query, involved_tables)
            /\ UNCHANGED <<probe_idx, large_tables>>
    /\ UNCHANGED <<schemaVars, cacheVars, dbVars, threads, gen, entry, natural_query,
                   query_result, sql_query, involved_tables, safe, execution_result,
                   result, served>>

\* lines 150-162: one iteration of the loop of _identify_large_tables.  A probe
\* that raises is caught by the except clause of the loop body, after
\* get_session() and before session.close().
ProbeTable ==
    /\ pc = "probe"
    /\ probe_idx <= Len(involved_tables)
    /\ \E outcome \in ProbeOutcomes :
        LET table == involved_tables[probe_idx] IN
        /\ db_sent' = Append(db_sent, count_query(table))
        /\ IF ~outcome.ok
           THEN /\ db_open' = db_open + 1
                /\ UNCHANGED large_tables
           ELSE /\ db_open' = db_open
                /\ large_tables' = IF outcome.count > LargeTableRows
                                   THEN Append(large_tables, table)
                                   ELSE large_tables
    /\ probe_idx' = probe_idx + 1
    /\ UNCHANGED <<schemaVars, cacheVars, threads, gen, entry, natural_query, query_result,
                   sql_query, involved_tables, safe, optimized_sql, execution_result,
                   result, served, pc, db_commits>>

\* lines 138-144: the loop is over; append LIMIT 100 when a table is large
FinishOptimize ==
    /\ pc = "probe"
    /\ probe_idx > Len(involved_tables)
    /\ optimized_sql' = _add_index_hints(
            IF large_tables # <<>> THEN sql_query \o " LIMIT 100" ELSE sql_query,
            involved_tables)
    /\ pc' = "execute"
    /\ UNCHANGED <<schemaVars, cacheVars, dbVars, threads, gen, entry, natural_query,
                   query_result, sql_query, involved_tables, safe, probe_idx,
                   large_tables, execution_result, result, served>>

\* lines 76-108: run the statement in a session of its own; the finally clause
\* closes the session on both paths
ExecuteStatement ==
    /\ pc = "execute"
    /\ db_sent' = Append(db_sent, optimized_sql)
    /\ \E outcome \in ExecOutcomes :
        IF ~outcome.ok
        THEN /\ execution_result' = [success |-> FALSE, error |-> ExecutionError,
                                     sql_attempted |-> sql_query]
             /\ UNCHANGED db_commits
        ELSE IF startswith(upper(strip(optimized_sql)), "SELECT")
        THEN /\ execution_result' = [success |-> TRUE, data |-> outcome.rows,
                                     row_count |-> outcome.rows,
                                     sql_executed |-> optimized_sql]
             /\ UNCHANGED db_commits
        ELSE /\ db_commits' = db_commits + 1
             /\ execution_result' = [success |-> TRUE, affected_rows |-> outcome.rows,
                                     sql_executed |-> optimized_sql]
    /\ pc' = "executed"
    /\ UNCHANGED <<schemaVars, cacheVars, threads, gen, entry, natural_query, query_result,
                   sql_query, involved_tables, safe, probe_idx, large_tables,
                   optimized_sql, result, served, db_open>>

\* execute_generated_sql returns to the caller that invoked it directly
ReturnExecuteGeneratedSql ==
    /\ pc = "executed"
    /\ entry = "execute_generated_sql"
    /\ result' = execution_result
    /\ pc' = "idle"
    /\ UNCHANGED <<schemaVars, cacheVars, dbVars, threads, gen, entry, natural_query,
                   query_result, sql_query, involved_tables, safe, probe_idx,
                   large_tables, optimized_sql, execution_result, served>>

-----------------------------------------------------------------------------
(* AdvancedQueryBuilder.process_natural_query, step by step; its call of   *)
(* execute_generated_sql runs the steps above.                             *)

\* lines 238-245
_generate_result_summary(row_count) ==
    IF row_count = 0 THEN "No results found for your query."
    ELSE IF row_count = 1 THEN "Found 1 result matching your query."
    ELSE "Found " \o ToString(row_count) \o " results matching your query."

\* a formatter that hands a failed execution result on as it is
format_query_results_passing_failures(execution, query_info, text) ==
    IF ~execution.success THEN execution
    ELSE [success |-> TRUE, natural_query |-> text,
          sql_executed |-> execution.sql_executed,
          confidence |-> query_info.confidence,
          tables_involved |-> query_info.tables,
          analysis |-> query_info.analysis,
          result_type |-> "data", row_count |-> execution.row_count,
          data |-> execution.data,
          summary |-> _generate_result_summary(execution.row_count)]

\* lines 172-214
format_query_results(execution, query_info, text) ==
    IF ~execution.success
    THEN [success |-> FALSE, error |-> execution.error, natural_query |-> text,
          sql_attempted |-> IF "sql_attempted" \in DOMAIN execution
                            THEN execution.sql_attempted ELSE None]
    ELSE IF "data" \in DOMAIN execution
    THEN [success |-> TRUE, natural_query |-> text,
          sql_executed |-> execution.sql_executed,
          confidence |-> query_info.confidence,
          tables_involved |-> query_info.tables,
          analysis |-> query_info.analysis,
          result_type |-> "data", row_count |-> execution.row_count,
          data |-> execution.data,
          summary |-> _generate_result_summary(execution.row_count)]
    ELSE [success |-> TRUE, natural_query |-> text,
          sql_executed |-> execution.sql_executed,
          confidence |-> query_info.confidence,
          tables_involved |-> query_info.tables,
          analysis |-> query_info.analysis,
          result_type |-> "modification", affected_rows |-> execution.affected_rows]

\* a caller invokes process_natural_query(natural_query) on the instance
CallProcessNaturalQuery ==
    /\ pc = "idle"
    /\ served < MaxRequests
    /\ \E text \in NaturalQueries(schema) : natural_query' = text
    /\ entry' = "process_natural_query"
    /\ query_result' = NoResult
    /\ sql_query' = None
    /\ involved_tables' = <<>>
    /\ pc' = "generate"
    /\ ResetCall
    /\ UNCHANGED <<schemaVars, cacheVars, threads, gen>>

\* lines 26-39: generate the statement; return at once when there is none,
\* else pass it with the tables to execute_generated_sql
GenerateSql ==
    /\ pc = "generate"
    /\ \E semantic \in semantic_matches(schema) :
       \E tables \in _identify_tables(schema, relationship_graph, table_aliases,
                        _analyze_natural_query(schema, table_aliases, natural_query),
                        semantic) :
        /\ query_result' = generate_sql(schema, relationship_graph, table_aliases,
                                        natural_query, tables)
        /\ IF query_result'.sql = None
           THEN /\ result' = [success |-> FALSE, error |-> query_result'.error,
                              natural_query |-> natural_query]
                /\ pc' = "idle"
                /\ UNCHANGED <<sql_query, involved_tables>>
           ELSE /\ sql_query' = query_result'.sql
                /\ involved_tables' = query_result'.tables
                /\ pc' = "gate"
                /\ UNCHANGED result
    /\ UNCHANGED <<schemaVars, cacheVars, dbVars, threads, gen, entry, natural_query, safe,
                   probe_idx, large_tables, optimized_sql, execution_result, served>>

\* a request that caches its statement whatever the outcome was
ReturnProcessNaturalQueryCachingAll ==
    /\ pc = "executed"
    /\ entry = "process_natural_query"
    /\ result' = format_query_results(execution_result, query_result, natural_query)
    /\ \E now \in {clock, clock + 1} :
        /\ query_cache' = _cache_query(query_cache, natural_query, query_result.sql, now)
        /\ clock' = now
        /\ hist' = history_after(hist, query_cache, query_cache', natural_query)
    /\ pc' = "idle"
    /\ UNCHANGED <<schemaVars, dbVars, threads, gen, entry, natural_query, query_result,
                   sql_query, involved_tables, safe, probe_idx, large_tables,
                   optimized_sql, execution_result, served>>

\* lines 42-52: format the outcome, cache the statement of a success, return
ReturnProcessNaturalQuery ==
    /\ pc = "executed"
    /\ entry = "process_natural_query"
    /\ result' = format_query_results(execution_result, query_result, natural_query)
    /\ IF result'.success
       THEN \E now \in {clock, clock + 1} :
               /\ query_cache' = _cache_query(query_cache, natural_query,
                                              query_result.sql, now)
               /\ clock' = now
               /\ hist' = history_after(hist, query_cache, query_cache', natural_query)
       ELSE UNCHANGED cacheVars
    /\ pc' = "idle"
    /\ UNCHANGED <<schemaVars, dbVars, threads, gen, entry, natural_query, query_result,
                   sql_query, involved_tables, safe, probe_idx, large_tables,
                   optimized_sql, execution_result, served>>

-----------------------------------------------------------------------------
(* The schemas the metadata source is drawn from.                          *)

customers_table(with_order_id) ==
    Tbl("customers",
        <<Pk("id"), Col("name", "VARCHAR")>>
            \o (IF with_order_id THEN <<Col("order_id", "INTEGER")>> ELSE <<>>),
        <<>>)

FkKinds == {"none", "customer_id", "buyer", "both"}

orders_table(fk_kind) ==
    Tbl("orders",
        <<Pk("id"), Col("customer_id", "INTEGER"), Col("buyer", "INTEGER"),
          Col("total", "DECIMAL")>>,
        CASE fk_kind = "none" -> <<>>
          [] fk_kind = "customer_id" -> <<Fk(<<"customer_id">>, "customers", <<"id">>)>>
          [] fk_kind = "buyer" -> <<Fk(<<"buyer">>, "customers", <<"id">>)>>
          [] OTHER -> <<Fk(<<"customer_id">>, "customers", <<"id">>),
                        Fk(<<"buyer">>, "customers", <<"id">>)>>)

\* orders and customers, in both orders of listing
ShopSchemas ==
    UNION { { <<customers_table(w), orders_table(k)>>,
              <<orders_table(k), customers_table(w)>> } :
            w \in BOOLEAN, k \in FkKinds }

plain_table(n) == Tbl(n, <<Pk("id")>>, <<>>)

RECURSIVE plain_tables(_, _)
plain_tables(names, chosen) ==
    IF names = <<>> THEN <<>>
    ELSE (IF Head(names) \in chosen THEN <<plain_table(Head(names))>> ELSE <<>>)
         \o plain_tables(Tail(names), chosen)

\* a table with one <word>_id column, and any choice of the tables the
\* pluralisation rule may resolve it to
PluralSchemas ==
    { <<Tbl("items", <<Pk("id"), Col("category_id", "INTEGER")>>, <<>>)>>
        \o plain_tables(<<"categories", "categoryes", "categorys", "category">>, chosen) :
      chosen \in SUBSET {"category", "categorys", "categoryes", "categories"} }
    \cup
    { <<Tbl("items", <<Pk("id"), Col("Box_ID", "INTEGER")>>, <<>>)>>
        \o plain_tables(<<"boxes", "boxs", "box", "Boxes">>, chosen) :
      chosen \in SUBSET {"box", "boxs", "boxes", "Boxes"} }

AffixNames == { "tbl_users", "users_table", "tbl_users_table", "tbl_order_items",
                "customers_table", "tbl_cust", "TBL_Orders", "tbl_log",
                "items__table", "orders", "tbl_" }

AffixSchemas == { <<plain_table(n)>> : n \in AffixNames }

SchemaInputs == ShopSchemas \cup PluralSchemas \cup AffixSchemas

-----------------------------------------------------------------------------
(* SchemaAnalyzer.__init__ / _analyze_schema, step by step.                *)

\* lines 34-51: the nodes and the declared foreign keys
AddForeignKeyEdges ==
    /\ stage = "new"
    /\ relationship_graph' =
            add_foreign_key_edges(add_nodes(EmptyGraph, get_table_names(schema)),
                                  table_fk_pairs(schema))
    /\ stage' = "foreign_keys"
    /\ UNCHANGED <<schema, table_aliases, cacheVars, reqVars, dbVars, threads, gen>>

\* lines 53-86: the edges inferred from <word>_id columns
DetectImplicitRelationships ==
    /\ stage = "foreign_keys"
    /\ relationship_graph' = _detect_implicit_relationships(relationship_graph, schema)
    /\ stage' = "graph"
    /\ UNCHANGED <<schema, table_aliases, cacheVars, reqVars, dbVars, threads, gen>>

\* lines 88-128; an IndexError leaves the constructor
DetectTableAliases ==
    /\ stage = "graph"
    /\ table_aliases' = _detect_table_aliases(schema)
    /\ stage' = IF aliased_prefix(get_table_names(schema)) < Len(schema)
                THEN "failed" ELSE "analyzed"
    /\ UNCHANGED <<schema, relationship_graph, cacheVars, reqVars, dbVars, threads, gen>>

-----------------------------------------------------------------------------
(* The cache on its own: successful translations written one at a time     *)
(* (process_natural_query, lines 49-50), starting from a cache that        *)
(* earlier successes have filled.                                          *)

MaxCacheWrites == 3

\* inputs of the successful requests; "q<i>" are keys of the filled cache
CacheInputs == { " Q1 ", "q2", "New A", "new a ", "new b" }

FillStyles == { "ordered", "rewritten", "same_tick" }
FillSizes == { 0, CacheCapacity - 1, CacheCapacity }

\* n entries: written once each at successive ticks; or the first one written
\* again after all the others; or all written within one tick of the clock
filled_cache(n, style) ==
    [i \in 1..n |->
        [key |-> "q" \o ToString(i),
         sql |-> "SELECT 1",
         timestamp |-> CASE style = "same_tick" -> 1
                         [] style = "rewritten" /\ i = 1 -> n + 1
                         [] OTHER -> i,
         success_count |-> IF style = "rewritten" /\ i = 1 THEN 2 ELSE 1]]

latest_timestamp(cache) ==
    IF cache = <<>> THEN 0
    ELSE CHOOSE t \in { cache[i].timestamp : i \in 1..Len(cache) } :
            \A i \in 1..Len(cache) : cache[i].timestamp <= t

\* lines 49-50 of a request that succeeded: one _cache_query call
CacheSuccessfulQuery ==
    /\ hist.writes < MaxCacheWrites
    /\ \E q \in CacheInputs, now \in {clock, clock + 1} :
        /\ query_cache' = _cache_query(query_cache, q, "SELECT 1", now)
        /\ clock' = now
        /\ hist' = history_after(hist, query_cache, query_cache', q)
    /\ UNCHANGED <<schemaVars, reqVars, dbVars, threads, gen>>

-----------------------------------------------------------------------------
Init ==
    /\ schema = <<>>
    /\ relationship_graph = EmptyGraph
    /\ table_aliases = <<>>
    /\ stage = "analyzed"
    /\ query_cache = <<>>
    /\ clock = 0
    /\ hist = [counts |-> <<>>, last |-> NoWrite, writes |-> 0]
    /\ pc = "idle"
    /\ entry = None
    /\ natural_query = None
    /\ query_result = NoResult
    /\ sql_query = None
    /\ involved_tables = <<>>
    /\ safe = "unchecked"
    /\ probe_idx = 0
    /\ large_tables = <<>>
    /\ optimized_sql = None
    /\ execution_result = NoResult
    /\ result = NoResult
    /\ served = 0
    /\ db_sent = <<>>
    /\ db_commits = 0
    /\ db_open = 0
    /\ threads = <<>>
    /\ gen = NoGeneration

Next ==
    \/ CallExecuteGeneratedSql
    \/ SafetyGate
    \/ OptimizeQuery
    \/ ProbeTable
    \/ FinishOptimize
    \/ ExecuteStatement
    \/ ReturnExecuteGeneratedSql

Spec == Init /\ [][Next]_vars

\* the shared instance right after its construction over one of the schemas,
\* serving process_natural_query calls one after the other
PipelineInit ==
    /\ schema \in { input.schema : input \in PipelineInputs }
    /\ relationship_graph = _build_relationship_graph(schema)
    /\ table_aliases = _detect_table_aliases(schema)
    /\ stage = "analyzed"
    /\ query_cache = <<>>
    /\ clock = 0
    /\ hist = [counts |-> <<>>, last |-> NoWrite, writes |-> 0]
    /\ pc = "idle"
    /\ entry = None
    /\ natural_query = None
    /\ query_result = NoResult
    /\ sql_query = None
    /\ involved_tables = <<>>
    /\ safe = "unchecked"
    /\ probe_idx = 0
    /\ large_tables = <<>>
    /\ optimized_sql = None
    /\ execution_result = NoResult
    /\ result = NoResult
    /\ served = 0
    /\ db_sent = <<>>
    /\ db_commits = 0
    /\ db_open = 0
    /\ threads = <<>>
    /\ gen = NoGeneration

PipelineNext ==
    \/ CallProcessNaturalQuery
    \/ GenerateSql
    \/ SafetyGate
    \/ OptimizeQuery
    \/ ProbeTable
    \/ FinishOptimize
    \/ ExecuteStatement
    \/ ReturnProcessNaturalQuery

SpecPipeline == PipelineInit /\ [][PipelineNext]_vars

\* the construction of a SchemaAnalyzer over a schema
SchemaInit ==
    /\ schema \in SchemaInputs
    /\ relationship_graph = EmptyGraph
    /\ table_aliases = <<>>
    /\ stage = "new"
    /\ query_cache = <<>>
    /\ clock = 0
    /\ hist = [counts |-> <<>>, last |-> NoWrite, writes |-> 0]
    /\ pc = "idle"
    /\ entry = None
    /\ natural_query = None
    /\ query_result = NoResult
    /\ sql_query = None
    /\ involved_tables = <<>>
    /\ safe = "unchecked"
    /\ probe_idx = 0
    /\ large_tables = <<>>
    /\ optimized_sql = None
    /\ execution_result = NoResult
    /\ result = NoResult
    /\ served = 0
    /\ db_sent = <<>>
    /\ db_commits = 0
    /\ db_open = 0
    /\ threads = <<>>
    /\ gen = NoGeneration

SchemaNext ==
    \/ AddForeignKeyEdges
    \/ DetectImplicitRelationships
    \/ DetectTableAliases

SpecSchema == SchemaInit /\ [][SchemaNext]_vars

\* the cache after earlier successes, and further successes one at a time
\* two requests served at once by the one shared instance (lines 376-377);
\* each has reached line 49 with a successful formatted result
ThreadIds == {1, 2}

thread_at(t, label) == t \in DOMAIN threads /\ threads[t].pc = label

thread_raises(t, message) ==
    [threads EXCEPT ![t].pc = "return",
                    ![t].outcome = [success |-> FALSE, error |-> message]]

\* lines 249-254: the key and the new entry's values are computed
ThreadBuildEntry(t) ==
    /\ thread_at(t, "call")
    /\ \E now \in {clock, clock + 1} :
        /\ clock' = now
        /\ threads' = [threads EXCEPT
              ![t].pc = "store",
              ![t].cache_key = cache_key_of(threads[t].natural_query),
              ![t].timestamp = now,
              ![t].success_count =
                  next_success_count(query_cache,
                                     cache_key_of(threads[t].natural_query))]
    /\ UNCHANGED <<schemaVars, query_cache, hist, reqVars, dbVars, gen>>

\* line 250: the entry is stored under the key
ThreadStoreEntry(t) ==
    /\ thread_at(t, "store")
    /\ LET e == [key |-> threads[t].cache_key, sql |-> "SELECT 1",
                 timestamp |-> threads[t].timestamp,
                 success_count |-> threads[t].success_count]
       IN query_cache' =
            IF e.key \in cache_keys(query_cache)
            THEN [i \in 1..Len(query_cache) |->
                    IF query_cache[i].key = e.key THEN e ELSE query_cache[i]]
            ELSE Append(query_cache, e)
    /\ threads' = [threads EXCEPT ![t].pc = "check"]
    /\ UNCHANGED <<schemaVars, clock, hist, reqVars, dbVars, gen>>

\* line 257
ThreadCheckSize(t) ==
    /\ thread_at(t, "check")
    /\ threads' = [threads EXCEPT
          ![t].pc = IF Len(query_cache) > CacheCapacity THEN "scan" ELSE "return",
          ![t].outcome = IF Len(query_cache) > CacheCapacity
                         THEN NoResult ELSE [success |-> TRUE, error |-> None]]
    /\ UNCHANGED <<schemaVars, cacheVars, reqVars, dbVars, gen>>

\* line 258: min() starts to iterate over the keys of the dictionary
ThreadScanBegin(t) ==
    /\ thread_at(t, "scan")
    /\ threads' = [threads EXCEPT ![t].pc = "scanning", ![t].view = query_cache]
    /\ UNCHANGED <<schemaVars, cacheVars, reqVars, dbVars, gen>>

\* lines 258-259: the iteration ends.  It raises when the dictionary has
\* another size than at its start; when entries were both added and removed
\* meanwhile, the minimum is the one of the keys passed before or after
ThreadScanEnd(t) ==
    /\ thread_at(t, "scanning")
    /\ IF Len(query_cache) # Len(threads[t].view)
       THEN threads' = thread_raises(t, "dictionary changed size during iteration")
       ELSE \E k \in {oldest_key(threads[t].view), oldest_key(query_cache)} :
               threads' = [threads EXCEPT ![t].pc = "delete", ![t].oldest_key = k]
    /\ UNCHANGED <<schemaVars, cacheVars, reqVars, dbVars, gen>>

\* line 260: del raises KeyError for a key that is no longer present
ThreadDelete(t) ==
    /\ thread_at(t, "delete")
    /\ IF threads[t].oldest_key \in cache_keys(query_cache)
       THEN /\ query_cache' = cache_delete(query_cache, threads[t].oldest_key)
            /\ threads' = [threads EXCEPT
                  ![t].pc = "return",
                  ![t].outcome = [success |-> TRUE, error |-> None]]
       ELSE /\ threads' = thread_raises(t, "'" \o threads[t].oldest_key \o "'")
            /\ UNCHANGED query_cache
    /\ UNCHANGED <<schemaVars, clock, hist, reqVars, dbVars, gen>>

\* line 52 after a completed write, lines 54-60 after a raise
ThreadReturn(t) ==
    /\ thread_at(t, "return")
    /\ threads' = [threads EXCEPT ![t].pc = "done"]
    /\ UNCHANGED <<schemaVars, cacheVars, reqVars, dbVars, gen>>

CacheInit ==
    /\ \E n \in FillSizes, style \in FillStyles :
        /\ query_cache = filled_cache(n, style)
        /\ clock = latest_timestamp(query_cache)
        /\ hist = [counts |-> [k \in cache_keys(query_cache) |->
                                  cache_get(query_cache, k).success_count],
                   last |-> NoWrite, writes |-> 0]
    /\ schema = <<>>
    /\ relationship_graph = EmptyGraph
    /\ table_aliases = <<>>
    /\ stage = "analyzed"
    /\ pc = "idle"
    /\ entry = None
    /\ natural_query = None
    /\ query_result = NoResult
    /\ sql_query = None
    /\ involved_tables = <<>>
    /\ safe = "unchecked"
    /\ probe_idx = 0
    /\ large_tables = <<>>
    /\ optimized_sql = None
    /\ execution_result = NoResult
    /\ result = NoResult
    /\ served = 0
    /\ db_sent = <<>>
    /\ db_commits = 0
    /\ db_open = 0
    /\ threads = <<>>
    /\ gen = NoGeneration

CacheNext == CacheSuccessfulQuery

SpecCache == CacheInit /\ [][CacheNext]_vars

\* the shared instance with a cache that is empty, one short of full, or full,
\* and two requests with different inputs about to cache their success
ConcInit ==
    /\ \E n \in FillSizes, style \in FillStyles :
        /\ query_cache = filled_cache(n, style)
        /\ clock = latest_timestamp(query_cache)
        /\ hist = [counts |-> [k \in cache_keys(query_cache) |->
                                  cache_get(query_cache, k).success_count],
                   last |-> NoWrite, writes |-> 0]
    /\ \E q1 \in CacheInputs, q2 \in CacheInputs :
        /\ q1 # q2
        /\ threads = [t \in ThreadIds |->
              [pc |-> "call", natural_query |-> IF t = 1 THEN q1 ELSE q2,
               cache_key |-> None, timestamp |-> 0, success_count |-> 0,
               view |-> <<>>, oldest_key |-> None, outcome |-> NoResult]]
    /\ gen = NoGeneration
    /\ schema = <<>>
    /\ relationship_graph = EmptyGraph
    /\ table_aliases = <<>>
    /\ stage = "analyzed"
    /\ pc = "idle"
    /\ entry = None
    /\ natural_query = None
    /\ query_result = NoResult
    /\ sql_query = None
    /\ involved_tables = <<>>
    /\ safe = "unchecked"
    /\ probe_idx = 0
    /\ large_tables = <<>>
    /\ optimized_sql = None
    /\ execution_result = NoResult
    /\ result = NoResult
    /\ served = 0
    /\ db_sent = <<>>
    /\ db_commits = 0
    /\ db_open = 0

ConcNext ==
    \E t \in ThreadIds :
        \/ ThreadBuildEntry(t)
        \/ ThreadStoreEntry(t)
        \/ ThreadCheckSize(t)
        \/ ThreadScanBegin(t)
        \/ ThreadScanEnd(t)
        \/ ThreadDelete(t)
        \/ ThreadReturn(t)

SpecConc == ConcInit /\ [][ConcNext]_vars

-----------------------------------------------------------------------------
(* AIQueryGenerator.generate_sql, statement by statement, and the lookup    *)
(* SchemaAnalyzer.find_table_by_alias, over analysed schemas.               *)

\* the schemas the generator is constructed over, each with the texts handed
\* to generate_sql and to find_table_by_alias: a shop related by column names
\* only; a shop whose products are three joins away from its customers, with
\* a table nothing refers to; tables whose names and aliases overlap
GeneratorInputs ==
    { [schema |->
         << Tbl("customers", <<Pk("id"), Col("name", "VARCHAR"), Col("email", "VARCHAR")>>, <<>>),
            Tbl("orders", <<Pk("id"), Col("customer_id", "INTEGER"), Col("total", "DECIMAL")>>,
                <<>>) >>,
       queries |-> { "how many customers are there", "show orders with customers",
                     "count customers email 'bob'", "hello", "show orders",
                     "show all orders", "show small orders", "total orders",
                     "avg orders", "sum of total by customers", "SHOW orders",
                     "count customers and total", "display each customers",
                     "how many orders customer_id 7",
                     "show total and by per each sum" },
       aliases |-> { "orders", "client", "zzz" }],
      [schema |->
         << Tbl("customers", <<Pk("id"), Col("name", "VARCHAR")>>, <<>>),
            Tbl("orders", <<Pk("id"), Col("customer_id", "INTEGER")>>, <<>>),
            Tbl("order_items", <<Col("order_id", "INTEGER"), Col("product_id", "INTEGER")>>, <<>>),
            Tbl("products", <<Pk("id"), Col("title", "VARCHAR"), Col("price", "FLOAT")>>, <<>>),
            Tbl("notes", <<Pk("id"), Col("body", "VARCHAR")>>, <<>>) >>,
       queries |-> { "show customers with products", "customers products notes",
                     "max price of products", "customers orders products" },
       aliases |-> { "item", "order" }],
      [schema |->
         << Tbl("customers_archive", <<Pk("id")>>, <<>>),
            Tbl("customers", <<Pk("id")>>, <<>>),
            Tbl("cust", <<Pk("id")>>, <<>>) >>,
       queries |-> { "list cust", "avg" },
       aliases |-> { "cust", " Customers ", "client", "archive", "customer", "zzz", "" }],
      [schema |->
         << Tbl("line_items", <<Pk("id")>>, <<>>),
            Tbl("products", <<Pk("id")>>, <<>>) >>,
       queries |-> { "get line_items" },
       aliases |-> { "item", " ITEM", "products", "li", "duct", "my line_items", "x" }] }

GeneratorInput(sch) == CHOOSE input \in GeneratorInputs : input.schema = sch

\* schema_analyzer.py lines 179-199, called by a client of the analyzer
FindTableByAlias ==
    /\ gen.pc = "idle"
    /\ \E alias \in GeneratorInput(schema).aliases :
        gen' = [gen EXCEPT !.pc = "looked_up", !.alias = alias,
                           !.table = find_table_by_alias(schema, table_aliases, alias)]
    /\ UNCHANGED <<schemaVars, cacheVars, reqVars, dbVars, threads>>

\* ai_query_generator.py line 72
AnalyzeNaturalQuery ==
    /\ gen.pc = "idle"
    /\ \E text \in GeneratorInput(schema).queries :
        gen' = [gen EXCEPT !.pc = "identify", !.natural_query = text,
                           !.analysis = _analyze_natural_query(schema, table_aliases, text)]
    /\ UNCHANGED <<schemaVars, cacheVars, reqVars, dbVars, threads>>

\* line 75
IdentifyTables ==
    /\ gen.pc = "identify"
    /\ \E semantic \in semantic_matches(schema) :
       \E tables \in _identify_tables(schema, relationship_graph, table_aliases,
                                      gen.analysis, semantic) :
        gen' = [gen EXCEPT !.pc = "joins", !.relevant_tables = tables]
    /\ UNCHANGED <<schemaVars, cacheVars, reqVars, dbVars, threads>>

\* line 78
BuildJoins ==
    /\ gen.pc = "joins"
    /\ gen' = [gen EXCEPT !.pc = "columns",
                          !.joins = _build_joins(relationship_graph, gen.relevant_tables)]
    /\ UNCHANGED <<schemaVars, cacheVars, reqVars, dbVars, threads>>

\* line 81; lines 101-108 when a table is not one the inspector lists
ExtractColumns ==
    /\ gen.pc = "columns"
    /\ IF \E i \in 1..Len(gen.relevant_tables) :
            ~in_list(gen.relevant_tables[i], get_table_names(schema))
       THEN gen' = [gen EXCEPT !.pc = "failed"]
       ELSE gen' = [gen EXCEPT !.pc = "conditions",
                               !.columns = _extract_columns(schema, gen.analysis,
                                                            gen.relevant_tables)]
    /\ UNCHANGED <<schemaVars, cacheVars, reqVars, dbVars, threads>>

\* line 82
ExtractConditions ==
    /\ gen.pc = "conditions"
    /\ gen' = [gen EXCEPT !.pc = "construct",
                          !.where_conditions = _extract_conditions(schema, gen.analysis,
                                                                   gen.relevant_tables)]
    /\ UNCHANGED <<schemaVars, cacheVars, reqVars, dbVars, threads>>

\* lines 85-99
ConstructSql ==
    /\ gen.pc = "construct"
    /\ gen' = [gen EXCEPT !.pc = "returned",
                          !.sql_query = _construct_sql(schema, gen.analysis.intent,
                                            gen.relevant_tables, gen.columns, gen.joins,
                                            gen.where_conditions, gen.analysis)]
    /\ UNCHANGED <<schemaVars, cacheVars, reqVars, dbVars, threads>>

GeneratorInit ==
    /\ schema \in { input.schema : input \in GeneratorInputs }
    /\ relationship_graph = _build_relationship_graph(schema)
    /\ table_aliases = _detect_table_aliases(schema)
    /\ stage = "analyzed"
    /\ gen = NoGeneration
    /\ query_cache = <<>>
    /\ clock = 0
    /\ hist = [counts |-> <<>>, last |-> NoWrite, writes |-> 0]
    /\ pc = "idle"
    /\ entry = None
    /\ natural_query = None
    /\ query_result = NoResult
    /\ sql_query = None
    /\ involved_tables = <<>>
    /\ safe = "unchecked"
    /\ probe_idx = 0
    /\ large_tables = <<>>
    /\ optimized_sql = None
    /\ execution_result = NoResult
    /\ result = NoResult
    /\ served = 0
    /\ db_sent = <<>>
    /\ db_commits = 0
    /\ db_open = 0
    /\ threads = <<>>

GeneratorNext ==
    \/ FindTableByAlias
    \/ AnalyzeNaturalQuery
    \/ IdentifyTables
    \/ BuildJoins
    \/ ExtractColumns
    \/ ExtractConditions
    \/ ConstructSql

SpecGenerator == GeneratorInit /\ [][GeneratorNext]_vars



-----------------------------------------------------------------------------
(* The claims.                                                             *)

BlockedKeywords == { "DROP", "DELETE", "UPDATE", "INSERT", "ALTER",
                     "CREATE", "TRUNCATE", "GRANT", "REVOKE" }

\* C1: once the safety gate has judged a statement, the statement is rejected
\* if and only if its upper-cased, trimmed text contains one of the nine
\* blocked keywords as a substring or does not begin with SELECT; the
\* statement "SELECT * FROM users; DROP TABLE users" is rejected and the
\* statement "SELECT * FROM users" is accepted.
C1_GateRejectsIffBlockedOrNotSelect ==
    safe # "unchecked" =>
        LET text == strip(upper(sql_query)) IN
        /\ safe = "rejected" <=>
              \/ \E k \in BlockedKeywords : contains(text, k)
              \/ ~startswith(text, "SELECT")
        /\ sql_query = "SELECT * FROM users; DROP TABLE users" => safe = "rejected"
        /\ sql_query = "SELECT * FROM users" => safe = "accepted"

C1_Witness ==
    /\ sql_query = "SELECT * FROM users; DROP TABLE users"
    /\ safe = "rejected"

\* C2: in every run of execute_generated_sql no statement reaches the session
\* before the gate has accepted; when the gate rejects, the run goes straight
\* to its return with a failure result, no statement (neither the main one nor
\* a table-size probe) has been sent and nothing has been committed.
C2_RejectionSendsNothing ==
    /\ db_sent # <<>> => safe = "accepted"
    /\ pc \in {"optimize", "probe", "execute"} => safe = "accepted"
    /\ safe = "rejected" =>
        /\ db_sent = <<>>
        /\ db_commits = 0
        /\ Returned(execution_result) /\ ~execution_result.success
        /\ pc = "idle" => Returned(result) /\ ~result.success

C2_Witness ==
    /\ pc = "idle"
    /\ safe = "rejected"
    /\ involved_tables # <<>>
    /\ Returned(result) /\ ~result.success
    /\ db_sent = <<>>

-----------------------------------------------------------------------------
(* Claims about the construction of the SchemaAnalyzer (SpecSchema).       *)

GraphBuilt == stage \in {"graph", "analyzed", "failed"}

IdColumns ==
    { p \in { table_column_pairs(schema)[i] : i \in 1..Len(table_column_pairs(schema)) } :
        endswith(lower(p.col.name), "_id") }

\* the table a column <word>_id names: the word itself, else word + s, else
\* word + es, else (for a word ending in y) the word with y replaced by ies
C8_NamedTable(col_name) ==
    LET word == SubSeq(col_name, 1, Len(col_name) - 3)
        names == { schema[i].name : i \in 1..Len(schema) }
    IN CASE word \in names -> word
         [] word \o "s" \in names -> word \o "s"
         [] word \o "es" \in names -> word \o "es"
         [] endswith(word, "y") /\ SubSeq(word, 1, Len(word) - 1) \o "ies" \in names ->
                SubSeq(word, 1, Len(word) - 1) \o "ies"
         [] OTHER -> None

\* the schema of the scenario: the tables orders and customers, no declared
\* foreign key, and orders.customer_id the one <word>_id column
C8_Scenario ==
    /\ { schema[i].name : i \in 1..Len(schema) } = {"orders", "customers"}
    /\ \A i \in 1..Len(schema) : schema[i].foreign_keys = <<>>
    /\ { <<p.table, p.col.name>> : p \in IdColumns } = { <<"orders", "customer_id">> }

DeclaredForeignKeys ==
    { table_fk_pairs(schema)[i] : i \in 1..Len(table_fk_pairs(schema)) }

\* C9: once the graph is built no two edges join the same unordered pair of
\* tables, and every pair joined by a declared foreign key has an edge of the
\* foreign_key kind that carries the column pair of a foreign key declared
\* between the two, also when a <word>_id column names the same pair.
C9_ExplicitEdgesKept ==
    GraphBuilt =>
        LET edges == relationship_graph.edges IN
        /\ \A i, j \in 1..Len(edges) : edges[i].ends = edges[j].ends => i = j
        /\ \A d \in DeclaredForeignKeys :
              \E i \in 1..Len(edges) :
                  /\ edges[i].ends = {d.table, d.fk.referred_table}
                  /\ edges[i].relationship_type = "foreign_key"
                  /\ \E d2 \in DeclaredForeignKeys :
                        /\ {d2.table, d2.fk.referred_table} = edges[i].ends
                        /\ edges[i].local_columns = d2.fk.constrained_columns
                        /\ edges[i].foreign_columns = d2.fk.referred_columns

\* a foreign key on orders.buyer, and the column orders.customer_id naming the
\* same pair of tables
C9_Witness ==
    /\ stage = "graph"
    /\ \E d \in DeclaredForeignKeys :
          /\ d.table = "orders" /\ d.fk.referred_table = "customers"
          /\ d.fk.constrained_columns = <<"buyer">>
    /\ \E p \in IdColumns : p.table = "orders" /\ p.col.name = "customer_id"
    /\ \E i \in 1..Len(relationship_graph.edges) :
          /\ relationship_graph.edges[i].ends = {"orders", "customers"}
          /\ relationship_graph.edges[i].relationship_type = "foreign_key"

\* the name in lower case without its tbl_ prefix and without its _table suffix
C10_CleanedForm(T) ==
    LET n == lower(T)
        m == IF startswith(n, "tbl_") THEN SubSeq(n, 5, Len(n)) ELSE n
    IN IF endswith(m, "_table") THEN SubSeq(m, 1, Len(m) - 6) ELSE m

\* C10: after the analysis, for every table whose name has a tbl_ prefix or a
\* _table suffix, the alias set of the table contains the name with the affix
\* stripped.
C10_AliasesContainCleanedForm ==
    stage = "analyzed" =>
        \A i \in 1..Len(schema) :
            LET T == schema[i].name IN
            (startswith(lower(T), "tbl_") \/ endswith(lower(T), "_table")) =>
                C10_CleanedForm(T) \in table_aliases[T]

-----------------------------------------------------------------------------
(* Claims about the cache written by one request at a time (SpecCache).    *)

\* C4: every _cache_query call leaves at most 100 entries; a call that finds
\* 100 entries and writes a key that was not among them leaves exactly 100:
\* the new entry is there, and exactly one earlier entry is gone, one whose
\* timestamp was minimal before the write.
C4_CapacityAndEviction ==
    [][ hist'.writes # hist.writes =>
            LET old == { query_cache[i] : i \in 1..Len(query_cache) }
                new == { query_cache'[i] : i \in 1..Len(query_cache') }
            IN /\ Len(query_cache') <= CacheCapacity
               /\ (Len(query_cache) = CacheCapacity /\ ~hist'.last.present) =>
                    /\ Len(query_cache') = CacheCapacity
                    /\ hist'.last.key \in cache_keys(query_cache')
                    /\ Cardinality(old \ new) = 1
                    /\ \A r \in old \ new :
                          /\ r.key # hist'.last.key
                          /\ \A e \in old : r.timestamp <= e.timestamp
      ]_vars

C4_Witness ==
    /\ hist.last.key # None
    /\ hist.last.size_before = CacheCapacity
    /\ ~hist.last.present
    /\ Len(query_cache) = CacheCapacity
    /\ "q1" \notin cache_keys(query_cache)

\* C7 as stated: the key of a write is the lower-cased, trimmed input, and the
\* counter a success stores is one more than the counter the previous success
\* of the same key stored (1 for the first success of the key).
C7_CounterAlwaysIncrements ==
    hist.last.key # None =>
        /\ hist.last.key = strip(lower(hist.last.input))
        /\ hist.last.count = hist.last.previous + 1

\* C7, amended: entries are keyed by the lower-cased, trimmed input; a success
\* whose key is still in the cache stores one more than the previous success
\* of that key stored; a success whose key is not in the cache (its first
\* success, or the first one after its entry was evicted) stores 1.
C7_CounterIncrementsWhileCached ==
    /\ \A i \in 1..Len(query_cache) :
          query_cache[i].key = strip(lower(query_cache[i].key))
    /\ hist.last.key # None =>
          /\ hist.last.key = strip(lower(hist.last.input))
          /\ hist.last.key \in cache_keys(query_cache)
          /\ cache_get(query_cache, hist.last.key).success_count = hist.last.count
          /\ hist.last.present => hist.last.previous >= 1
          /\ hist.last.count = IF hist.last.present THEN hist.last.previous + 1 ELSE 1

C7_Witness ==
    /\ hist.last.input = " Q1 "
    /\ hist.last.key = "q1"
    /\ hist.last.present
    /\ hist.last.previous = 2
    /\ hist.last.count = 3


\* C5: whenever two concurrent requests with different inputs have both
\* finished their cache write, both return success and the cache holds at
\* most CacheCapacity entries.
C5_ConcurrentWritesSucceed ==
    (\A t \in DOMAIN threads : threads[t].pc = "done") =>
        /\ \A t \in DOMAIN threads : threads[t].outcome.success
        /\ Len(query_cache) <= CacheCapacity


\* C3: every statement process_natural_query hands to the session, the main
\* statement and every table-size probe alike, begins with SELECT and contains
\* none of the nine blocked keywords.
C3_EverySentStatementPassesGate ==
    entry = "process_natural_query" =>
        \A i \in 1..Len(db_sent) :
            /\ startswith(db_sent[i], "SELECT")
            /\ \A k \in BlockedKeywords : ~contains(upper(db_sent[i]), k)

\* C3, as the code has it: every statement process_natural_query hands to the
\* session begins with SELECT; the main statement, with LIMIT 100 appended or
\* not, contains none of the nine blocked keywords; any other statement sent
\* is the probe SELECT COUNT(*) FROM <table> of an involved table, which is
\* not judged by the gate and contains whatever the table's name contains.
C3_MainStatementPassesGateProbesAreCounts ==
    entry = "process_natural_query" =>
        /\ \A i \in 1..Len(db_sent) :
            /\ startswith(db_sent[i], "SELECT")
            /\ \/ \A k \in BlockedKeywords : ~contains(upper(db_sent[i]), k)
               \/ /\ i <= Len(involved_tables)
                  /\ db_sent[i] = "SELECT COUNT(*) FROM " \o involved_tables[i]
        /\ pc = "executed" /\ safe = "accepted" =>
            /\ db_sent[Len(db_sent)] = optimized_sql
            /\ optimized_sql \in {sql_query, sql_query \o " LIMIT 100"}
            /\ \A k \in BlockedKeywords : ~contains(upper(optimized_sql), k)

C3_Witness ==
    /\ entry = "process_natural_query"
    /\ pc = "executed"
    /\ Len(db_sent) = 3
    /\ db_sent[2] = "SELECT COUNT(*) FROM dropbox"
    /\ db_sent[3] = "SELECT orders.id, orders.customer_id FROM orders LIMIT 100"

\* C6: the cache (entries, counters, timestamps) changes only in the step
\* that ends a request whose statement was generated, accepted by the gate
\* and executed successfully; a request for which no statement was generated,
\* whose statement the gate rejected or whose execution raised changes nothing.
C6_CacheWrittenOnlyAfterSuccess ==
    [][query_cache' # query_cache =>
            /\ pc = "executed"
            /\ entry = "process_natural_query"
            /\ query_result.sql # None
            /\ safe = "accepted"
            /\ execution_result.success
            /\ result'.success]_vars

\* a second request was rejected by the gate after the first had been cached
C6_Witness ==
    /\ entry = "process_natural_query"
    /\ pc = "idle"
    /\ served = 2
    /\ safe = "rejected"
    /\ ~result.success
    /\ Len(query_cache) = 1
    /\ hist.writes = 1

-----------------------------------------------------------------------------
(* Claims about the lookups and the generator, over SpecGenerator.         *)

\* the tables of the schema, and those that match a lookup text at each of
\* the three levels
TableNames == { schema[i].name : i \in 1..Len(schema) }
C11_Exact(a) ==
    { t \in TableNames : lower(t) = a }
C11_Aliased(a) ==
    { t \in TableNames :
        t \in DOMAIN table_aliases /\ \E x \in table_aliases[t] : lower(x) = a }
C11_Partial(a) ==
    { t \in TableNames : contains(lower(t), a) \/ contains(a, lower(t)) }

\* C11: find_table_by_alias resolves under the precedence exact name, then
\* alias, then substring in either direction: a text equal (lower-cased and
\* trimmed) to a table's name yields that table even when it is an alias of or
\* a substring of another table's name; otherwise a table holding the text as
\* an alias is preferred to one matching only as a substring; and the lookup
\* yields nothing only when no table matches at any of the three levels.
C11_LookupFollowsPrecedence ==
    gen.pc = "looked_up" =>
        LET a == strip(lower(gen.alias))
        IN /\ C11_Exact(a) # {} => gen.table \in C11_Exact(a)
           /\ (C11_Exact(a) = {} /\ C11_Aliased(a) # {}) => gen.table \in C11_Aliased(a)
           /\ (C11_Exact(a) = {} /\ C11_Aliased(a) = {} /\ C11_Partial(a) # {})
                  => gen.table \in C11_Partial(a)
           /\ gen.table = None
                  <=> C11_Exact(a) \cup C11_Aliased(a) \cup C11_Partial(a) = {}

\* the text "cust" names the table cust, is an alias of customers_archive, which
\* is listed before it, and is a substring of that table's name
C11_Witness ==
    /\ gen.pc = "looked_up"
    /\ gen.alias = "cust"
    /\ gen.table = "cust"
    /\ get_table_names(schema)[1] = "customers_archive"
    /\ "cust" \in table_aliases["customers_archive"]
    /\ contains("customers_archive", "cust")

\* generate_sql has built its join plan
JoinsBuilt == gen.pc \in {"columns", "conditions", "construct", "returned", "failed"}

\* the graph relates orders and customers by the edge inferred from the column
\* orders.customer_id
C12_InferredOrdersCustomersEdge ==
    \E i \in 1..Len(relationship_graph.edges) :
        LET e == relationship_graph.edges[i]
        IN /\ e.ends = {"orders", "customers"}
           /\ e.relationship_type = "implicit"
           /\ e.local_columns = <<"customer_id">>
           /\ e.foreign_columns = <<"id">>

\* C12: _build_joins returns an empty plan for a list of zero or one table;
\* for the list orders, customers over a graph with the inferred
\* orders-customers edge it returns exactly one step, a LEFT JOIN whose ON
\* condition uses the column pair (customer_id, id); and every step of every
\* plan is a LEFT JOIN.
C12_JoinPlanIsLeftJoins ==
    JoinsBuilt =>
        /\ Len(gen.relevant_tables) <= 1 => gen.joins = <<>>
        /\ (gen.relevant_tables = <<"orders", "customers">> /\ C12_InferredOrdersCustomersEdge)
               => gen.joins = <<"LEFT JOIN customers ON orders.customer_id = customers.id">>
        /\ \A i \in 1..Len(gen.joins) : startswith(gen.joins[i], "LEFT JOIN ")

\* the plan for orders, customers has been built over the inferred edge
C12_Witness ==
    /\ JoinsBuilt
    /\ gen.natural_query = "show orders with customers"
    /\ gen.relevant_tables = <<"orders", "customers">>
    /\ C12_InferredOrdersCustomersEdge
    /\ Len(gen.joins) = 1

\* generate_sql has returned a statement built for at least one table
Synthesized == gen.pc = "returned" /\ gen.relevant_tables # <<>>

\* the entities of one type that the analysis extracted
EntitiesOfType(types) ==
    { gen.analysis.entities[i] : i \in { j \in 1..Len(gen.analysis.entities) :
                                         gen.analysis.entities[j].type \in types } }

\* C13 as stated: a statement synthesized for the intent count begins with
\* SELECT COUNT(*) and no extracted column entity appears anywhere in it.
C13_CountDiscardsColumnEntities ==
    (Synthesized /\ gen.analysis.intent = "count") =>
        /\ startswith(gen.sql_query, "SELECT COUNT(*)")
        /\ \A c \in EntitiesOfType({"column"}) :
              ~contains(gen.sql_query, c.table \o "." \o c.value)

\* C13: a statement synthesized for the intent count selects COUNT(*) from the
\* anchor table and projects no column; the extracted column entities still
\* reach the statement through its WHERE clause, one condition for every
\* pairing of a column entity with a quoted value or a number.
C13_CountSelectsCountStarKeepsConditions ==
    (Synthesized /\ gen.analysis.intent = "count") =>
        /\ startswith(gen.sql_query, "SELECT COUNT(*) FROM " \o gen.relevant_tables[1])
        /\ \A c \in EntitiesOfType({"column"}) :
              /\ \A v \in EntitiesOfType({"value"}) :
                    contains(gen.sql_query,
                             c.table \o "." \o c.value \o " LIKE '%" \o v.value \o "%'")
              /\ \A n \in EntitiesOfType({"number"}) :
                    contains(gen.sql_query, c.table \o "." \o c.value \o " = " \o n.value)

\* a count over customers whose text names the column email and the value bob
C13_Witness ==
    /\ Synthesized
    /\ gen.analysis.intent = "count"
    /\ gen.natural_query = "count customers email 'bob'"
    /\ \E c \in EntitiesOfType({"column"}) : c.value = "email"
    /\ \E v \in EntitiesOfType({"value"}) : v.value = "bob"

\* the analysis of the text has been made over a schema with a customers table
C14_Scenario ==
    /\ gen.pc \notin {"idle", "looked_up"}
    /\ gen.natural_query = "how many customers are there"
    /\ "customers" \in TableNames

\* the positions of the table entities in the analysis
TableEntities ==
    { i \in 1..Len(gen.analysis.entities) : gen.analysis.entities[i].type = "table" }

\* C14 as stated: the text "how many customers are there" yields the intent
\* count, exactly one table entity, customers with confidence 0.9, and the
\* statement SELECT COUNT(*) FROM customers without WHERE clause.
C14_OneTableEntity ==
    C14_Scenario =>
        /\ gen.analysis.intent = "count"
        /\ Cardinality(TableEntities) = 1
        /\ \A i \in TableEntities :
              /\ gen.analysis.entities[i].value = "customers"
              /\ gen.analysis.entities[i].confidence = float_of_tenths(9)
        /\ gen.pc = "returned" =>
              /\ gen.sql_query = "SELECT COUNT(*) FROM customers"
              /\ ~contains(gen.sql_query, "WHERE")

\* C14: the text "how many customers are there" yields the intent count and
\* the statement SELECT COUNT(*) FROM customers without WHERE clause; its
\* table entities all name customers: one for the table's name, with
\* confidence 0.9, and one more, with confidence 0.8, for every alias of
\* customers that occurs in the text.
C14_TableEntitiesPerNameAndAlias ==
    C14_Scenario =>
        LET entities == gen.analysis.entities
            occurring == { x \in table_aliases["customers"] :
                             contains(lower(gen.natural_query), lower(x)) }
        IN /\ gen.analysis.intent = "count"
           /\ \A i \in TableEntities : entities[i].value = "customers"
           /\ Cardinality({ i \in TableEntities :
                              entities[i].confidence = float_of_tenths(9) }) = 1
           /\ Cardinality({ i \in TableEntities :
                              entities[i].confidence = float_of_tenths(8) })
                  = Cardinality(occurring)
           /\ Cardinality(TableEntities) = 1 + Cardinality(occurring)
           /\ gen.pc = "returned" =>
                 /\ gen.sql_query = "SELECT COUNT(*) FROM customers"
                 /\ ~contains(gen.sql_query, "WHERE")

\* the statement has been returned, and two aliases of customers occur in the text
C14_Witness ==
    /\ C14_Scenario
    /\ gen.pc = "returned"
    /\ Cardinality(TableEntities) = 3
    /\ {"customer", "cust"} \subseteq table_aliases["customers"]

\* the analysis of the text has been made over a schema whose graph relates
\* orders and customers
C15_Scenario ==
    /\ gen.pc \notin {"idle", "looked_up"}
    /\ gen.natural_query = "show orders with customers"
    /\ has_edge(relationship_graph, "orders", "customers")

\* the aliases of a table that occur in the text under analysis
OccurringAliases(table) ==
    { x \in table_aliases[table] : contains(lower(gen.natural_query), lower(x)) }

\* C15 as stated: the text "show orders with customers" yields the intent
\* list, two table entities, one join step and a statement ending with
\* LIMIT 10.
C15_ListIntentWithLimit ==
    C15_Scenario =>
        /\ gen.analysis.intent = "list"
        /\ Cardinality(TableEntities) = 2
        /\ JoinsBuilt => Len(gen.joins) = 1
        /\ gen.pc = "returned" => endswith(gen.sql_query, " LIMIT 10")

\* C15: the text "show orders with customers" yields the intent join, because
\* "with" is a keyword of the category join and that category is examined
\* after list; its table entities name exactly the two tables orders and
\* customers, one entity for each name and one for each alias occurring in
\* the text; the plan has one join step; and the statement has no LIMIT.
C15_JoinIntentWithoutLimit ==
    C15_Scenario =>
        /\ gen.analysis.intent = "join"
        /\ { gen.analysis.entities[i].value : i \in TableEntities } = {"orders", "customers"}
        /\ Cardinality(TableEntities)
              = 2 + Cardinality(OccurringAliases("orders"))
                  + Cardinality(OccurringAliases("customers"))
        /\ JoinsBuilt => Len(gen.joins) = 1
        /\ gen.pc = "returned" => ~contains(gen.sql_query, "LIMIT")

\* the statement has been returned for the seven table entities
C15_Witness ==
    /\ C15_Scenario
    /\ gen.pc = "returned"
    /\ Cardinality(TableEntities) = 7
    /\ Len(gen.joins) = 1

-----------------------------------------------------------------------------
(* Claims about requests whose text names no table, over SpecPipeline.     *)

\* C16: a request whose analysis resolves no usable table ends as a failure
\* (NoTablesResolved, with the original text): process_natural_query returns
\* success = false and the cache holds nothing for that input.
C16_NoTablesResolvedIsAFailure ==
    (/\ entry = "process_natural_query"
     /\ pc = "idle"
     /\ Returned(result)
     /\ query_result # NoResult
     /\ query_result.sql # None
     /\ query_result.tables = <<>>)
        => /\ ~result.success
           /\ cache_key_of(natural_query) \notin cache_keys(query_cache)

-----------------------------------------------------------------------------
(* Claims about the analysis of the text, over SpecGenerator.              *)

\* generate_sql has analysed its text
Analysed == gen.pc \notin {"idle", "looked_up"}

\* a word occurs in the lower-cased text under analysis
Occurs(word) == contains(lower(gen.natural_query), word)

\* the categories in the order the analysis examines them, and the positions
\* of those with a keyword occurring in the text
Categories == <<"count", "list", "aggregate", "group_by", "join">>
OccurringCategories ==
    { c \in 1..Len(Categories) :
        \E k \in 1..Len(query_patterns) :
            query_patterns[k][1] = Categories[c] /\ Occurs(query_patterns[k][2]) }

\* C17: the intent reported is group_by when the lower-cased text contains by,
\* group, each or per; otherwise aggregate when it contains sum, avg, average,
\* max or min; otherwise the last category, in the order count, list,
\* aggregate, group_by, join, that has a keyword occurring in the text;
\* otherwise list.  group_by wins over aggregate when both are present.
C17_IntentPrecedence ==
    Analysed =>
        gen.analysis.intent =
            IF \E w \in {"by", "group", "each", "per"} : Occurs(w) THEN "group_by"
            ELSE IF \E w \in {"sum", "avg", "average", "max", "min"} : Occurs(w)
            THEN "aggregate"
            ELSE IF OccurringCategories # {}
            THEN Categories[CHOOSE c \in OccurringCategories :
                                \A d \in OccurringCategories : d <= c]
            ELSE "list"

\* a text with an aggregation word and a grouping word has been analysed
C17_Witness ==
    /\ Analysed
    /\ Occurs("sum")
    /\ Occurs("by")
    /\ gen.analysis.intent = "group_by"

\* the number of (category, keyword) pairs whose keyword occurs in the text
OccurringPairs ==
    Cardinality({ k \in 1..Len(query_patterns) : Occurs(query_patterns[k][2]) })

\* the text holds no keyword, no name or alias of a table, no column name, no
\* quote and no digit
NothingOccurs ==
    /\ OccurringPairs = 0
    /\ \A t \in TableNames : ~Occurs(lower(t))
    /\ \A t \in DOMAIN table_aliases : \A x \in table_aliases[t] : ~Occurs(lower(x))
    /\ \A i \in 1..Len(schema) : \A j \in 1..Len(schema[i].columns) :
          ~Occurs(lower(schema[i].columns[j].name))
    /\ \A i \in 1..Len("'\"0123456789") : ~Occurs(char_at("'\"0123456789", i))

-----------------------------------------------------------------------------
(* Claims about join plans along paths, over SpecGenerator.                *)

\* the walks of the relationship graph from one table to another that visit
\* at most every node once, and the shortest of them
C19_Walks(from, to) ==
    { p \in UNION { [1..n -> relationship_graph.nodes] :
                        n \in 2..Cardinality(relationship_graph.nodes) } :
        /\ p[1] = from
        /\ p[Len(p)] = to
        /\ \A i \in 1..(Len(p) - 1) : has_edge(relationship_graph, p[i], p[i + 1]) }
C19_ShortestWalks(from, to) ==
    { p \in C19_Walks(from, to) : \A q \in C19_Walks(from, to) : Len(p) <= Len(q) }

\* the join steps along a walk: one per hop, with the column pair of the hop's edge
C19_StepsAlong(p) ==
    [i \in 1..(Len(p) - 1) |->
        LET e == CHOOSE e \in { relationship_graph.edges[k] :
                                  k \in 1..Len(relationship_graph.edges) } :
                     e.ends = {p[i], p[i + 1]}
        IN "LEFT JOIN " \o p[i + 1] \o " ON " \o p[i] \o "." \o e.local_columns[1]
           \o " = " \o p[i + 1] \o "." \o e.foreign_columns[1]]

\* the plans that give every table from position i on the steps along a
\* shortest walk from the anchor, and no step when there is no walk
RECURSIVE C19_Plans(_)
C19_Plans(i) ==
    IF i > Len(gen.relevant_tables) THEN { <<>> }
    ELSE LET walks == C19_ShortestWalks(gen.relevant_tables[1], gen.relevant_tables[i])
             steps == IF walks = {} THEN { <<>> } ELSE { C19_StepsAlong(p) : p \in walks }
         IN { s \o rest : s \in steps, rest \in C19_Plans(i + 1) }

\* C19: the join plan holds, for every table after the anchor and in their
\* order, one step per hop of a shortest path from the anchor to the table,
\* each with the column pair of that hop's edge; a table no path leads to
\* gets no step, nothing is raised, and the steps of the other tables are
\* still there.
C19_OneStepPerHop ==
    (JoinsBuilt /\ Len(gen.relevant_tables) >= 2) =>
        /\ gen.pc # "failed"
        /\ gen.joins \in C19_Plans(2)

\* a plan for customers, notes, products: no path leads to notes, and products
\* is three hops from customers
C19_Witness ==
    /\ JoinsBuilt
    /\ gen.relevant_tables = <<"customers", "notes", "products">>
    /\ C19_Walks("customers", "notes") = {}
    /\ ~has_edge(relationship_graph, "customers", "products")
    /\ \E p \in C19_ShortestWalks("customers", "products") : Len(p) = 4
    /\ Len(gen.joins) = 3

-----------------------------------------------------------------------------
(* Claims about the LIMIT clause, over SpecGenerator.                      *)

\* the word occurs in the lower-cased text as a word of its own: no letter,
\* digit or underscore stands before or after it
C20_WordOccurs(word) ==
    LET text == lower(gen.natural_query)
        n == Len(word)
    IN \E i \in 1..(Len(text) - n + 1) :
          /\ SubSeq(text, i, i + n - 1) = word
          /\ i = 1 \/ ~is_word(char_at(text, i - 1))
          /\ i + n > Len(text) \/ ~is_word(char_at(text, i + n))

\* C20: a statement synthesized for a non-empty table list ends with LIMIT 10
\* if and only if the intent is list and the word "all" does not appear in the
\* text; for every other intent no LIMIT 10 is appended.
C20_LimitIffListWithoutWordAll ==
    Synthesized =>
        (endswith(gen.sql_query, " LIMIT 10")
            <=> (gen.analysis.intent = "list" /\ ~C20_WordOccurs("all")))

-----------------------------------------------------------------------------
(* Claims about the row-limiting step and the execution, over Spec.        *)

\* the gate has accepted the statement and the statement has been executed
AcceptedAndExecuted == pc \in {"executed", "idle"} /\ safe = "accepted"

\* the upper-cased statement holds neither LIMIT nor COUNT(
C21_Unbounded ==
    ~contains(upper(sql_query), "LIMIT") /\ ~contains(upper(sql_query), "COUNT(")

\* C21: the statement executed is the accepted statement with LIMIT 100
\* appended if and only if the statement holds neither LIMIT nor COUNT( and a
\* size probe found a table above 10,000 rows, and is the accepted statement
\* otherwise; when sizes are needed every involved table is probed, in order,
\* whatever the probes before it did; a probe that fails marks no table as
\* large; and the statement is executed after the probes.
C21_LimitAppendedIffUnboundedAndLarge ==
    AcceptedAndExecuted =>
        LET probes == IF C21_Unbounded
                      THEN [i \in 1..Len(involved_tables) |->
                               "SELECT COUNT(*) FROM " \o involved_tables[i]]
                      ELSE <<>>
        IN /\ optimized_sql = IF C21_Unbounded /\ large_tables # <<>>
                              THEN sql_query \o " LIMIT 100" ELSE sql_query
           /\ db_sent = Append(probes, optimized_sql)
           /\ Len(large_tables) + db_open <= Len(probes)

\* of two probes the first failed and the second found a large table: the
\* statement was executed with LIMIT 100
C21_Witness ==
    /\ AcceptedAndExecuted
    /\ Len(involved_tables) = 2
    /\ db_open = 1
    /\ large_tables = <<involved_tables[2]>>
    /\ endswith(optimized_sql, " LIMIT 100")
    /\ Len(db_sent) = 3

\* C22 as stated: a statement synthesized for the intent aggregate selects
\* FUNC(first numeric column) when an aggregation function was detected and an
\* involved table has a numeric column, and COUNT(*) otherwise.
C22_AggregateNeverProjects ==
    (Synthesized /\ gen.analysis.intent = "aggregate") =>
        LET numeric_cols == _find_numeric_columns(schema, gen.relevant_tables)
        IN startswith(gen.sql_query,
              IF gen.analysis.aggregation # None /\ numeric_cols # <<>>
              THEN "SELECT " \o upper(gen.analysis.aggregation)
                             \o "(" \o numeric_cols[1] \o ") FROM "
              ELSE "SELECT COUNT(*) FROM ")

-----------------------------------------------------------------------------
(* Claims about a whole request, over SpecPipeline.                        *)

\* the positions of db_sent at which the main statement was handed over, as
\* synthesized or with the row limit appended
C23_Submissions ==
    { i \in 1..Len(db_sent) : db_sent[i] \in {sql_query, sql_query \o " LIMIT 100"} }

\* execute_generated_sql has come back from a statement whose execution failed
C23_ExecutionFailed ==
    /\ entry = "process_natural_query"
    /\ pc = "executed"
    /\ safe = "accepted"
    /\ ~execution_result.success

\* the step that follows a failed execution: the request returns one failure
\* result with the collaborator's message, the text and the synthesized
\* statement, hands nothing more to the database and leaves the cache alone
C23_FailureEndsRequest ==
    C23_ExecutionFailed =>
        /\ pc' = "idle"
        /\ result' = [success |-> FALSE, error |-> ExecutionError,
                      natural_query |-> natural_query, sql_attempted |-> sql_query]
        /\ db_sent' = db_sent
        /\ query_cache' = query_cache

\* C23: within one request the main statement is handed to the execution
\* collaborator at most once; when that execution fails the request ends with
\* one failure result carrying the collaborator's error message and the
\* synthesized statement, without a second execution and without a cache write.
C23_MainStatementSubmittedAtMostOnce ==
    /\ [](Cardinality(C23_Submissions) <= 1)
    /\ [](C23_ExecutionFailed => Cardinality(C23_Submissions) = 1)
    /\ [][C23_FailureEndsRequest]_vars

\* a request has ended with the failure of its one execution
C23_Witness ==
    /\ entry = "process_natural_query"
    /\ pc = "idle"
    /\ safe = "accepted"
    /\ Returned(execution_result)
    /\ ~execution_result.success
    /\ Returned(result)
    /\ result.error = ExecutionError
    /\ Cardinality(C23_Submissions) = 1

-----------------------------------------------------------------------------
(* Claims about the extracted columns and the join plan, over SpecGenerator. *)

\* C24 as stated: when the analysis holds a table entity, every column entity
\* belongs to a table that a table entity names.
C24_ColumnEntitiesWithinTableEntities ==
    (Analysed /\ EntitiesOfType({"table"}) # {}) =>
        \A c \in EntitiesOfType({"column"}) :
            \E t \in EntitiesOfType({"table"}) : c.table = t.value

\* the names of the columns the schema lists for a table
ColumnNames(table) ==
    { get_columns(schema, table)[i].name : i \in 1..Len(get_columns(schema, table)) }

\* the join steps whose two ON columns are columns of the tables they are
\* qualified by
OwnedJoinSteps ==
    { "LEFT JOIN " \o t \o " ON " \o a \o "." \o x \o " = " \o t \o "." \o y :
        <<a, x, t, y>> \in UNION { UNION { {a} \X ColumnNames(a) \X {t} \X ColumnNames(t) :
                                           t \in TableNames } : a \in TableNames } }

\* C25 as stated: in every join step of the plan each column of the ON
\* predicate is a column of the table that qualifies it.
C25_OnColumnsQualifiedByOwner ==
    JoinsBuilt => \A i \in 1..Len(gen.joins) : gen.joins[i] \in OwnedJoinSteps

\* the table a join step joins
JoinTarget(step) ==
    CHOOSE t \in TableNames : startswith(step, "LEFT JOIN " \o t \o " ON ")

\* C26 as stated: the join plan joins no table twice and never joins the
\* anchor table.
C26_EachTableIntroducedOnce ==
    (JoinsBuilt /\ gen.relevant_tables # <<>>) =>
        /\ \A i \in 1..Len(gen.joins) : JoinTarget(gen.joins[i]) # gen.relevant_tables[1]
        /\ \A i, j \in 1..Len(gen.joins) :
              i # j => JoinTarget(gen.joins[i]) # JoinTarget(gen.joins[j])

\* the tables the synthesized statement introduces: the anchor of its FROM
\* clause and the targets of its join steps
IntroducedTables ==
    {gen.relevant_tables[1]} \cup { JoinTarget(gen.joins[i]) : i \in 1..Len(gen.joins) }

\* C27 as stated: every table that qualifies a column anywhere in the
\* synthesized statement is introduced by the statement.
C27_QualifiersAreIntroduced ==
    Synthesized =>
        \A t \in TableNames :
            (contains(gen.sql_query, " " \o t \o ".") \/ contains(gen.sql_query, "(" \o t \o "."))
                => t \in IntroducedTables

-----------------------------------------------------------------------------
(* Claims about the branches of execute_generated_sql, over Spec.          *)

\* what process_natural_query makes of an execution result
C28_Formatted ==
    format_query_results(execution_result,
                         [confidence |-> float_of_tenths(5), tables |-> involved_tables,
                          analysis |-> NoResult],
                         "text")

\* C28: the branch of execute_generated_sql for statements other than SELECT
\* is never taken: session.commit() is never called, no execution result
\* carries affected_rows, and every successful execution result carries data,
\* which process_natural_query formats with result_type data.
C28_OnlySelectBranchTaken ==
    /\ db_commits = 0
    /\ Returned(execution_result) =>
          /\ "affected_rows" \notin DOMAIN execution_result
          /\ execution_result.success =>
                /\ "data" \in DOMAIN execution_result
                /\ startswith(upper(strip(optimized_sql)), "SELECT")
                /\ C28_Formatted.result_type = "data"

\* a statement that does not begin with the upper-case word SELECT passed
\* the gate and was executed through the SELECT branch
C28_Witness ==
    /\ pc = "executed"
    /\ safe = "accepted"
    /\ ~startswith(sql_query, "SELECT")
    /\ execution_result.success
    /\ "data" \in DOMAIN execution_result
    /\ db_commits = 0

-----------------------------------------------------------------------------
(* Claims about the result of a request, over SpecPipeline.                *)

\* process_natural_query has returned to its caller
C29_RequestReturned == entry = "process_natural_query" /\ pc = "idle"

C29_GenerationFailed == C29_RequestReturned /\ ~result.success /\ query_result.sql = None
C29_Rejected == C29_RequestReturned /\ ~result.success /\ safe = "rejected"
C29_ExecFailedAfterProbeFailed ==
    C29_RequestReturned /\ ~result.success /\ safe = "accepted" /\ db_open > 0

C30_SessionsClosedAtReturn ==
    C29_RequestReturned => db_open = 0

=============================================================================
